---- MODULE Spec2Model ----
(***************************************************************************)
(* Settings store and project registry of src-tauri/src/lib.rs.            *)
(*                                                                         *)
(* The store is one JSON document on disk (disk) and the plugin's shared   *)
(* in-memory cache of it (mem).  Every command is a sequence of store      *)
(* calls (reload, get, set, save); each store call is one step of the      *)
(* process that runs the command, the local computation that follows the   *)
(* call belongs to the same step.                                          *)
(***************************************************************************)
EXTENDS Integers, Sequences, FiniteSets, TLC

\* ------------------------------------------------------------------ bounds
MaxProjects == 2

\* --------------------------------------------------------------- constants
Procs == {1, 2}

STORE_KEY_TEXT_API == "textApiKey"
STORE_KEY_IMAGE_API == "imageApiKey"
STORE_KEY_PROJECTS == "projects"
StoreKeys == {STORE_KEY_TEXT_API, STORE_KEY_IMAGE_API, STORE_KEY_PROJECTS}

\* ----------------------------------------------------------------- strings
\* A String is the sequence of its characters.

IsWhitespace(c) == c = " "

RECURSIVE TrimStart(_)
TrimStart(s) ==
    IF s = <<>> THEN s
    ELSE IF IsWhitespace(Head(s)) THEN TrimStart(Tail(s)) ELSE s

RECURSIVE TrimEnd(_)
TrimEnd(s) ==
    IF s = <<>> THEN s
    ELSE IF IsWhitespace(s[Len(s)]) THEN TrimEnd(SubSeq(s, 1, Len(s) - 1)) ELSE s

\* str::trim
Trim(s) == TrimEnd(TrimStart(s))

\* Ord for String: byte-wise lexicographic, a proper prefix is smaller.
RECURSIVE StrLess(_, _)
StrLess(a, b) ==
    LET Ord(c) == CASE c = " " -> 32
                    [] c = "a" -> 97
                    [] OTHER -> 122
    IN
    IF a = <<>> THEN b # <<>>
    ELSE IF b = <<>> THEN FALSE
    ELSE IF Ord(Head(a)) < Ord(Head(b)) THEN TRUE
    ELSE IF Ord(Head(a)) > Ord(Head(b)) THEN FALSE
    ELSE StrLess(Tail(a), Tail(b))

\* --------------------------------------------------------- project records
default_string == <<>>
default_sections == <<>>
default_text_model == "gpt-4o"
default_word_count == 1000

ProjectSettings(url, user, pass, tool, goal, example, sections, model, words) ==
    [wordpress_url |-> url, wordpress_user |-> user, wordpress_pass |-> pass,
     tool_name |-> tool, article_goal_prompt |-> goal, example_url |-> example,
     sections |-> sections, text_generation_model |-> model,
     target_word_count |-> words]

\* slip: tool_name left at the serde default instead of the project name
default_settings_blank_tool(name) ==
    ProjectSettings(default_string, default_string, default_string, default_string,
                    default_string, default_string, default_sections,
                    default_text_model, default_word_count)

\* the record create_project builds
default_settings(name) ==
    ProjectSettings(default_string, default_string, default_string, name,
                    default_string, default_string, default_sections,
                    default_text_model, default_word_count)

\* records a caller passes to save_project_settings
SettingsInputs ==
    { ProjectSettings(<<"u">>, <<"w">>, <<"p">>, <<"t">>, <<"g">>, <<"e">>,
                      <<[instructions |-> <<"i">>]>>, "gpt-4o-mini", 500),
      ProjectSettings(<<"v">>, <<"x">>, <<"q">>, <<"s">>, <<"h">>, <<"f">>,
                      <<[instructions |-> <<"j">>], [instructions |-> <<"i">>]>>,
                      "o3", 2000) }

NoSettings ==
    ProjectSettings(<<>>, <<>>, <<>>, <<>>, <<>>, <<>>, <<>>, "", 0)

\* ProjectsMap::new()
EmptyMap == [n \in {} |-> NoSettings]

\* slip: the new map built from the inserted entry alone
MapInsert_alone(m, k, v) == [n \in {k} |-> v]

\* HashMap::insert
MapInsert(m, k, v) == [n \in DOMAIN m \cup {k} |-> IF n = k THEN v ELSE m[n]]

\* slip: remove reports the entry and leaves it in the map
MapRemove_kept(m, k) == m

\* HashMap::remove
MapRemove(m, k) == [n \in DOMAIN m \ {k} |-> m[n]]

\* ------------------------------------------------------------- JSON values
\* t is the kind of the value: "absent" (no such key), "null", "string"
\* (s holds it) or "object" (m holds the map of project records).
JAbsent == [t |-> "absent", s |-> <<>>, m |-> EmptyMap]
JNull == [t |-> "null", s |-> <<>>, m |-> EmptyMap]
JString(str) == [t |-> "string", s |-> str, m |-> EmptyMap]

\* serde_json::to_value of a ProjectsMap
to_value(projects) == [t |-> "object", s |-> <<>>, m |-> projects]

\* serde_json::from_value::<ProjectsMap>: only an object of records is a map
from_value(v) ==
    IF v.t = "object" THEN [ok |-> TRUE, m |-> v.m]
    ELSE [ok |-> FALSE, m |-> EmptyMap]

EmptyDoc == [k \in StoreKeys |-> JAbsent]
NoFile == [k \in StoreKeys |-> [t |-> "nofile", s |-> <<>>, m |-> EmptyMap]]

\* ----------------------------------------------------------------- results
Res(ok, err, some, rec, names, str) ==
    [ok |-> ok, err |-> err, some |-> some, rec |-> rec, names |-> names, str |-> str]

Ok == Res(TRUE, "", FALSE, NoSettings, <<>>, <<>>)
OkSomeRec(r) == Res(TRUE, "", TRUE, r, <<>>, <<>>)
OkSomeStr(s) == Res(TRUE, "", TRUE, NoSettings, <<>>, s)
OkNone == Res(TRUE, "", FALSE, NoSettings, <<>>, <<>>)
OkNames(ns) == Res(TRUE, "", FALSE, NoSettings, ns, <<>>)
Err(e) == Res(FALSE, e, FALSE, NoSettings, <<>>, <<>>)
Pending == Res(FALSE, "pending", FALSE, NoSettings, <<>>, <<>>)


\* ---------------------------------------------------------------- commands

Call(op, name, settings, key, value) ==
    [op |-> op, name |-> name, settings |-> settings, key |-> key, value |-> value]

NoCall == Call("none", <<>>, NoSettings, "", <<>>)

RegistryOps == {"create_project", "get_projects", "get_project_settings",
                "save_project_settings", "delete_project"}

\* what a command does after its store.get: the result it returns at once,
\* or the value it goes on to set under the projects key
Out(res, write, val) == [res |-> res, write |-> write, val |-> val]
Return_(res) == Out(res, FALSE, JAbsent)
SetProjects(projects) == Out(Pending, TRUE, to_value(projects))

\* slip: a value that does not deserialize is taken for an empty map
get_projects_from_store_lenient(store) ==
    IF store[STORE_KEY_PROJECTS].t = "absent"
    THEN [ok |-> TRUE, m |-> EmptyMap]
    ELSE [ok |-> TRUE, m |-> from_value(store[STORE_KEY_PROJECTS]).m]

get_projects_from_store(store) ==
    IF store[STORE_KEY_PROJECTS].t = "absent"
    THEN [ok |-> TRUE, m |-> EmptyMap]
    ELSE from_value(store[STORE_KEY_PROJECTS])

\* slip: name.is_empty() without the trim
name_is_empty(name) == name = <<>>

\* name.trim().is_empty()
name_is_blank(name) == Trim(name) = <<>>

\* slip: no contains_key check before the insert
create_project_overwrite(name, store) ==
    LET projects == get_projects_from_store(store) IN
    IF ~projects.ok THEN Return_(Err("Deserialize"))
    ELSE SetProjects(MapInsert(projects.m, name, default_settings(name)))

create_project(name, store) ==
    LET projects == get_projects_from_store(store) IN
    IF ~projects.ok THEN Return_(Err("Deserialize"))
    ELSE IF name \in DOMAIN projects.m THEN Return_(Err("AlreadyExists"))
    ELSE SetProjects(MapInsert(projects.m, name, default_settings(name)))

\* slip: the comparison reversed, largest first
RECURSIVE sort_descending(_)
sort_descending(names) ==
    IF names = {} THEN <<>>
    ELSE LET greatest == CHOOSE n \in names : \A o \in names \ {n} : StrLess(o, n)
         IN <<greatest>> \o sort_descending(names \ {greatest})

\* names.sort_unstable(): ascending, smallest first
RECURSIVE sort_unstable(_)
sort_unstable(names) ==
    IF names = {} THEN <<>>
    ELSE LET least == CHOOSE n \in names : \A o \in names \ {n} : StrLess(n, o)
         IN <<least>> \o sort_unstable(names \ {least})

get_projects(store) ==
    LET projects == get_projects_from_store(store) IN
    IF ~projects.ok THEN Return_(Err("Deserialize"))
    ELSE Return_(OkNames(sort_unstable(DOMAIN projects.m)))

\* slip: a missing project reported as an error
get_project_settings_strict(name, store) ==
    LET projects == get_projects_from_store(store) IN
    IF ~projects.ok THEN Return_(Err("Deserialize"))
    ELSE IF name \in DOMAIN projects.m THEN Return_(OkSomeRec(projects.m[name]))
    ELSE Return_(Err("NotFound"))

\* slip: a missing project created on first read
get_project_settings_or_create(name, store) ==
    LET projects == get_projects_from_store(store) IN
    IF ~projects.ok THEN Return_(Err("Deserialize"))
    ELSE IF name \in DOMAIN projects.m THEN Return_(OkSomeRec(projects.m[name]))
    ELSE SetProjects(MapInsert(projects.m, name, default_settings(name)))

get_project_settings(name, store) ==
    LET projects == get_projects_from_store(store) IN
    IF ~projects.ok THEN Return_(Err("Deserialize"))
    ELSE IF name \in DOMAIN projects.m THEN Return_(OkSomeRec(projects.m[name]))
    ELSE Return_(OkNone)

\* slip: insert without the existence check (upsert)
save_project_settings_upsert(name, settings, store) ==
    LET projects == get_projects_from_store(store) IN
    IF ~projects.ok THEN Return_(Err("Deserialize"))
    ELSE SetProjects(MapInsert(projects.m, name, settings))

save_project_settings(name, settings, store) ==
    LET projects == get_projects_from_store(store) IN
    IF ~projects.ok THEN Return_(Err("Deserialize"))
    ELSE IF name \notin DOMAIN projects.m THEN Return_(Err("NotFound"))
    ELSE SetProjects(MapInsert(projects.m, name, settings))

\* slip: the result of remove ignored
delete_project_silent(name, store) ==
    LET projects == get_projects_from_store(store) IN
    IF ~projects.ok THEN Return_(Err("Deserialize"))
    ELSE SetProjects(MapRemove(projects.m, name))

delete_project(name, store) ==
    LET projects == get_projects_from_store(store) IN
    IF ~projects.ok THEN Return_(Err("Deserialize"))
    ELSE IF name \notin DOMAIN projects.m THEN Return_(Err("NotFound"))
    ELSE SetProjects(MapRemove(projects.m, name))

get_api_key(key_name, store) ==
    LET value == store[key_name] IN
    IF value.t = "string" THEN Return_(OkSomeStr(value.s))
    ELSE IF value.t = "absent" THEN Return_(OkNone)
    ELSE Return_(Err("NotAString"))

AfterGet(c, store) ==
    CASE c.op = "create_project" -> create_project(c.name, store)
      [] c.op = "get_projects" -> get_projects(store)
      [] c.op = "get_project_settings" -> get_project_settings(c.name, store)
      [] c.op = "save_project_settings" -> save_project_settings(c.name, c.settings, store)
      [] c.op = "delete_project" -> delete_project(c.name, store)
      [] c.op = "get_api_key" -> get_api_key(c.key, store)

\* ------------------------------------------------------------------- state
VARIABLES
    booted,   \* setup has run
    disk,     \* the settings file
    mem,      \* the store's in-memory cache, shared by all commands
    pc,       \* per process: the store call it is about to make
    call,     \* per process: the command it runs and its arguments
    local,    \* per process: the key and value it is about to set
    res,      \* per process: the value the command returns
    calls,    \* per process: the store calls the command has made so far
    pre,      \* per process: the settings file when the command was invoked
    prev      \* the command that returned last and its result, when it is a
              \* registry command that succeeded

\* the commands that talk to WordPress
VARIABLES
    request,         \* the command's request: the image URLs to upload
    wp_settings,     \* the project settings the command looked up
    index,           \* position in image_urls of the image being processed
    attempts,        \* upload attempts made for this image
    wait_duration,   \* seconds the command is about to sleep
    result,          \* what process_single_image_upload has just returned
    upload_results,  \* the results pushed so far
    responses,       \* the last response to each kind of request of this image
    waits,           \* the durations slept for this image, in order
    net,             \* requests sent and sleeps made by the command so far
    sent,            \* the body of the last request the command sent
    api_key          \* the API key the command fetched from the store

\* the publishing pipeline that invokes the commands
VARIABLES
    pipeline         \* the publish request in progress: its stage and what
                     \* the stages before have produced

wpvars == <<request, wp_settings, index, attempts, wait_duration, result,
            upload_results, responses, waits, net, sent, api_key, pipeline>>

vars == <<booted, disk, mem, pc, call, local, res, calls, pre, prev,
          request, wp_settings, index, attempts, wait_duration, result,
          upload_results, responses, waits, net, sent, api_key, pipeline>>

WpOps == {"upload_images_to_wordpress", "get_wordpress_categories", "publish_to_wordpress"}

\* Option<T>: None is the empty sequence, Some(v) the sequence of v alone
None == <<>>
Some(v) == <<v>>

ImageUploadResult(original_url, success, error, media_id, media_url) ==
    [original_url |-> original_url, success |-> success, error |-> error,
     wordpress_media_id |-> media_id, wordpress_media_url |-> media_url]

NoRequest == [image_urls |-> <<>>]
NoResult == ImageUploadResult("", FALSE, None, None, None)
NoResponses == [download |-> None, upload |-> None, other |-> None]
NoNet == [downloads |-> 0, uploads |-> 0, sleeps |-> 0, others |-> 0]

\* no publish request is in progress
NoPipeline ==
    [stage |-> "Idle", article |-> <<>>, image_urls |-> <<>>, images |-> <<>>,
     completed |-> <<>>]

\* no WordPress command is running
WpIdle ==
    /\ request = NoRequest
    /\ wp_settings = NoSettings
    /\ index = 0
    /\ attempts = 0
    /\ wait_duration = 0
    /\ result = NoResult
    /\ upload_results = <<>>
    /\ responses = NoResponses
    /\ waits = <<>>
    /\ net = NoNet
    /\ sent = None
    /\ api_key = None

\* the command's locals are dropped when it returns
WpReset ==
    /\ request' = NoRequest
    /\ wp_settings' = NoSettings
    /\ index' = 0
    /\ attempts' = 0
    /\ wait_duration' = 0
    /\ result' = NoResult
    /\ upload_results' = <<>>
    /\ responses' = NoResponses
    /\ waits' = <<>>
    /\ net' = NoNet
    /\ sent' = None
    /\ api_key' = None

NoLocal == [key |-> "", val |-> JAbsent]
NoPrev == [call |-> NoCall, res |-> Pending]

Init ==
    /\ booted = FALSE
    /\ disk = NoFile
    /\ mem = EmptyDoc
    /\ pc = [p \in Procs |-> "idle"]
    /\ call = [p \in Procs |-> NoCall]
    /\ local = [p \in Procs |-> NoLocal]
    /\ res = [p \in Procs |-> Pending]
    /\ calls = [p \in Procs |-> <<>>]
    /\ pre = [p \in Procs |-> EmptyDoc]
    /\ prev = NoPrev
    /\ WpIdle
    /\ pipeline = NoPipeline

\* the document setup writes when the file does not exist
InitialDoc ==
    [k \in StoreKeys |-> IF k = STORE_KEY_PROJECTS THEN to_value(EmptyMap) ELSE JNull]

\* slip: store.save() left out of the initialization
Setup_no_save ==
    /\ ~booted
    /\ booted' = TRUE
    /\ IF disk = NoFile
       THEN mem' = InitialDoc /\ disk' = disk
       ELSE mem' = disk /\ disk' = disk
    /\ UNCHANGED <<pc, call, local, res, calls, pre, prev>>
    /\ UNCHANGED wpvars

\* run(): the setup hook.  It opens the store under the absolute path
\* app_data_dir/STORE_FILE and the commands open STORE_FILE, which the plugin
\* resolves against the same directory: both are the one store modelled here.
Setup ==
    /\ ~booted
    /\ booted' = TRUE
    /\ IF disk = NoFile
       THEN mem' = InitialDoc /\ disk' = InitialDoc
       ELSE mem' = disk /\ disk' = disk
    /\ UNCHANGED <<pc, call, local, res, calls, pre, prev>>
    /\ UNCHANGED wpvars

\* a command is invoked; create_project checks the name before it touches the store
Invoke(p, c) ==
    LET ProjectCount(doc) ==
            IF doc[STORE_KEY_PROJECTS].t = "object"
            THEN Cardinality(DOMAIN doc[STORE_KEY_PROJECTS].m) ELSE 0
    IN
    /\ booted
    /\ pc[p] = "idle"
    /\ c.op = "create_project" => ProjectCount(disk) < MaxProjects
    /\ call' = [call EXCEPT ![p] = c]
    /\ pre' = [pre EXCEPT ![p] = disk]
    /\ calls' = [calls EXCEPT ![p] = <<>>]
    /\ IF c.op = "create_project" /\ name_is_blank(c.name)
       THEN /\ pc' = [pc EXCEPT ![p] = "done"]
            /\ res' = [res EXCEPT ![p] = Err("InvalidName")]
            /\ local' = local
       ELSE IF c.op = "save_api_key"
       THEN /\ pc' = [pc EXCEPT ![p] = "set"]
            /\ res' = [res EXCEPT ![p] = Pending]
            /\ local' = [local EXCEPT ![p] = [key |-> c.key, val |-> JString(c.value)]]
       ELSE /\ pc' = [pc EXCEPT ![p] = "reload"]
            /\ res' = [res EXCEPT ![p] = Pending]
            /\ local' = local
    /\ UNCHANGED <<booted, disk, mem, prev>>

\* s.reload(): the cache becomes the file's content, or the read fails
Reload(p) ==
    /\ pc[p] = "reload"
    /\ calls' = [calls EXCEPT ![p] = Append(@, "reload")]
    /\ \E io_ok \in BOOLEAN :
        IF io_ok
        THEN /\ mem' = disk
             /\ pc' = [pc EXCEPT ![p] = "get"]
             /\ res' = res
        ELSE /\ mem' = mem
             /\ pc' = [pc EXCEPT ![p] = "done"]
             /\ res' = [res EXCEPT ![p] = Err("IoError")]
    /\ UNCHANGED <<booted, disk, call, local, pre, prev>>
    /\ UNCHANGED wpvars

\* s.get(..) and the computation up to the next store call or the return
Get(p) ==
    /\ pc[p] = "get"
    /\ call[p].op \notin WpOps
    /\ calls' = [calls EXCEPT ![p] = Append(@, "get")]
    /\ LET out == AfterGet(call[p], mem) IN
        IF out.write
        THEN /\ pc' = [pc EXCEPT ![p] = "set"]
             /\ local' = [local EXCEPT ![p] = [key |-> STORE_KEY_PROJECTS, val |-> out.val]]
             /\ res' = res
        ELSE /\ pc' = [pc EXCEPT ![p] = "done"]
             /\ local' = local
             /\ res' = [res EXCEPT ![p] = out.res]
    /\ UNCHANGED <<booted, disk, mem, call, pre, prev>>
    /\ UNCHANGED wpvars

\* s.set(key, value): changes the cache only
Set(p) ==
    /\ pc[p] = "set"
    /\ calls' = [calls EXCEPT ![p] = Append(@, "set")]
    /\ mem' = [mem EXCEPT ![local[p].key] = local[p].val]
    /\ pc' = [pc EXCEPT ![p] = "save"]
    /\ UNCHANGED <<booted, disk, call, local, res, pre, prev>>
    /\ UNCHANGED wpvars

\* slip: s.save() left out, the command returns after the set
Save_skipped(p) ==
    /\ pc[p] = "save"
    /\ calls' = [calls EXCEPT ![p] = Append(@, "save")]
    /\ disk' = disk
    /\ res' = [res EXCEPT ![p] = Ok]
    /\ pc' = [pc EXCEPT ![p] = "done"]
    /\ UNCHANGED <<booted, mem, call, local, pre, prev>>
    /\ UNCHANGED wpvars

\* s.save(): the file becomes the cache's content, or the write fails
Save(p) ==
    /\ pc[p] = "save"
    /\ calls' = [calls EXCEPT ![p] = Append(@, "save")]
    /\ \E io_ok \in BOOLEAN :
        IF io_ok
        THEN disk' = mem /\ res' = [res EXCEPT ![p] = Ok]
        ELSE disk' = disk /\ res' = [res EXCEPT ![p] = Err("IoError")]
    /\ pc' = [pc EXCEPT ![p] = "done"]
    /\ UNCHANGED <<booted, mem, call, local, pre, prev>>
    /\ UNCHANGED wpvars

\* the command's result reaches the caller
Returns(p) ==
    /\ pc[p] = "done"
    /\ prev' = IF call[p].op \in RegistryOps /\ res[p].ok
               THEN [call |-> call[p], res |-> res[p]]
               ELSE NoPrev
    /\ pc' = [pc EXCEPT ![p] = "idle"]
    /\ call' = [call EXCEPT ![p] = NoCall]
    /\ local' = [local EXCEPT ![p] = NoLocal]
    /\ res' = [res EXCEPT ![p] = Pending]
    /\ calls' = [calls EXCEPT ![p] = <<>>]
    /\ pre' = [pre EXCEPT ![p] = EmptyDoc]
    /\ WpReset
    /\ UNCHANGED <<booted, disk, mem>>

Return(p) == Returns(p) /\ UNCHANGED pipeline

\* commands invoked one after the other: none starts while another runs
InvokeAlone ==
    LET CallInputs ==
            \* project names a caller passes: "", " ", "a", " a", "aa"
            LET Names == {<<>>, <<" ">>, <<"a">>, <<" ", "a">>, <<"a", "a">>}
                KeyValues == {<<"k">>}
            IN
            {Call("save_api_key", <<>>, NoSettings, k, v) : k \in StoreKeys, v \in KeyValues}
            \cup {Call("get_api_key", <<>>, NoSettings, k, <<>>) : k \in StoreKeys}
            \cup {Call("create_project", n, NoSettings, "", <<>>) : n \in Names}
            \cup {Call("get_projects", <<>>, NoSettings, "", <<>>)}
            \cup {Call("get_project_settings", n, NoSettings, "", <<>>) : n \in Names}
            \cup {Call("save_project_settings", n, st, "", <<>>) : n \in Names, st \in SettingsInputs}
            \cup {Call("delete_project", n, NoSettings, "", <<>>) : n \in Names}
    IN  \E c \in CallInputs :
            /\ \A q \in Procs : pc[q] = "idle"
            /\ Invoke(1, c)
            /\ UNCHANGED wpvars

Step == \E p \in Procs : Reload(p) \/ Get(p) \/ Set(p) \/ Save(p) \/ Return(p)

Next == Setup \/ InvokeAlone \/ Step

Spec == Init /\ [][Next]_vars

\* ------------------------------------------------------------ observations
Done(p, op) == pc[p] = "done" /\ call[p].op = op

\* the stored projects value is a map of project records
WellFormed(doc) == doc[STORE_KEY_PROJECTS].t = "object"

\* the names of the projects a well-formed document holds
Existing(doc) == DOMAIN doc[STORE_KEY_PROJECTS].m

\* the command's reload and save both worked
IoWorked(p) == res[p].err # "IoError"

\* the command that returned just before p's command was op on the same name
Follows(p, op) ==
    /\ prev.call.op = op
    /\ prev.call.name = call[p].name

\* ------------------------------------------------------------------ claims
\* C1: for every name that is not blank and not already present,
\* create_project succeeds, and a get_project_settings(name) that follows it
\* returns the default record: empty WordPress URL, user and password, empty
\* goal prompt, example URL and section list, model "gpt-4o", target word
\* count 1000 and tool_name equal to the project name.
C1_CreateThenGetDefault ==
    \A p \in Procs :
        /\ ( /\ Done(p, "create_project")
             /\ Trim(call[p].name) # <<>>
             /\ WellFormed(pre[p])
             /\ call[p].name \notin Existing(pre[p])
             /\ IoWorked(p) )
           => res[p] = Ok
        /\ ( /\ Done(p, "get_project_settings")
             /\ Follows(p, "create_project")
             /\ IoWorked(p) )
           => /\ res[p].ok /\ res[p].some
              /\ res[p].rec =
                    [wordpress_url |-> <<>>, wordpress_user |-> <<>>,
                     wordpress_pass |-> <<>>, tool_name |-> call[p].name,
                     article_goal_prompt |-> <<>>, example_url |-> <<>>,
                     sections |-> <<>>, text_generation_model |-> "gpt-4o",
                     target_word_count |-> 1000]

C1_Witness ==
    \E p \in Procs :
        /\ Done(p, "get_project_settings")
        /\ Follows(p, "create_project")
        /\ call[p].name = <<" ", "a">>
        /\ res[p].some

\* C2: create_project on a name that already exists returns AlreadyExists
\* and leaves the stored record of that project, replaced settings
\* included, as it was.
C2_CreateExistingKeepsRecord ==
    \A p \in Procs :
        ( /\ Done(p, "create_project")
          /\ WellFormed(pre[p])
          /\ call[p].name \in Existing(pre[p])
          /\ IoWorked(p) )
        => /\ res[p] = Err("AlreadyExists")
           /\ disk = pre[p]

C2_Witness ==
    \E p \in Procs :
        /\ Done(p, "create_project")
        /\ WellFormed(pre[p])
        /\ call[p].name \in Existing(pre[p])
        /\ pre[p][STORE_KEY_PROJECTS].m[call[p].name] \in SettingsInputs
        /\ res[p] = Err("AlreadyExists")

\* C3: create_project with an empty or whitespace-only name returns
\* InvalidName before any store call: no reload, set or save is made and the
\* settings file is unchanged.
C3_BlankNameTouchesNothing ==
    \A p \in Procs :
        (Done(p, "create_project") /\ Trim(call[p].name) = <<>>)
        => /\ res[p] = Err("InvalidName")
           /\ calls[p] = <<>>
           /\ disk = pre[p]

C3_Witness ==
    \E p \in Procs :
        /\ Done(p, "create_project")
        /\ call[p].name = <<" ">>
        /\ res[p] = Err("InvalidName")
        /\ Existing(disk) # {}

\* C4: get_projects returns exactly the names of the projects that exist,
\* each once, in lexicographically ascending order.
C4_ListSortedExact ==
    \A p \in Procs :
        (Done(p, "get_projects") /\ res[p].ok)
        => LET names == res[p].names IN
           /\ {names[i] : i \in 1..Len(names)} = Existing(disk)
           /\ Len(names) = Cardinality(Existing(disk))
           /\ \A i \in 1..Len(names) - 1 : StrLess(names[i], names[i + 1])

C4_Witness ==
    \E p \in Procs :
        /\ Done(p, "get_projects")
        /\ res[p].ok
        /\ res[p].names = << <<" ", "a">>, <<"a", "a">> >>

\* C5: delete_project on a missing name returns NotFound; on an existing
\* name it succeeds, and afterwards get_projects does not list the name and
\* get_project_settings(name) returns absent.
C5_DeleteMissingAndExisting ==
    \A p \in Procs :
        /\ ( /\ Done(p, "delete_project")
             /\ WellFormed(pre[p])
             /\ IoWorked(p) )
           => IF call[p].name \in Existing(pre[p])
              THEN res[p] = Ok /\ call[p].name \notin Existing(disk)
              ELSE res[p] = Err("NotFound")
        /\ ( /\ Done(p, "get_projects")
             /\ prev.call.op = "delete_project"
             /\ IoWorked(p) )
           => /\ res[p].ok
              /\ \A i \in 1..Len(res[p].names) : res[p].names[i] # prev.call.name
        /\ ( /\ Done(p, "get_project_settings")
             /\ Follows(p, "delete_project")
             /\ IoWorked(p) )
           => res[p] = OkNone

C5_Witness ==
    \E p \in Procs :
        /\ Done(p, "get_project_settings")
        /\ Follows(p, "delete_project")
        /\ res[p] = OkNone
        /\ Existing(disk) # {}

\* C6: save_project_settings on a missing name returns NotFound and creates
\* nothing; on an existing name it replaces the whole record, so that a
\* get_project_settings(name) that follows returns exactly the given record.
C6_ReplaceWholeRecord ==
    \A p \in Procs :
        /\ ( /\ Done(p, "save_project_settings")
             /\ WellFormed(pre[p])
             /\ IoWorked(p) )
           => IF call[p].name \in Existing(pre[p])
              THEN res[p] = Ok
              ELSE res[p] = Err("NotFound") /\ disk = pre[p]
        /\ ( /\ Done(p, "get_project_settings")
             /\ Follows(p, "save_project_settings")
             /\ IoWorked(p) )
           => /\ res[p].ok /\ res[p].some
              /\ res[p].rec = prev.call.settings

C6_Witness ==
    \E p \in Procs :
        /\ Done(p, "get_project_settings")
        /\ Follows(p, "save_project_settings")
        /\ res[p].some
        /\ res[p].rec = prev.call.settings
        /\ Len(res[p].rec.sections) = 2

\* C7: get_project_settings on a missing name returns a successful absent
\* result, not an error, when the store loads and its projects value is well
\* formed.
C7_GetMissingIsOkNone ==
    \A p \in Procs :
        ( /\ Done(p, "get_project_settings")
          /\ WellFormed(pre[p])
          /\ call[p].name \notin Existing(pre[p])
          /\ IoWorked(p) )
        => res[p].ok /\ ~res[p].some

C7_Witness ==
    \E p \in Procs :
        /\ Done(p, "get_project_settings")
        /\ WellFormed(pre[p])
        /\ Existing(pre[p]) # {}
        /\ call[p].name \notin Existing(pre[p])
        /\ res[p] = OkNone

\* C8: the read-only commands make no set and no save call and leave the
\* settings file as it was, so a get_project_settings that follows a
\* get_project_settings for the same name returns the same value.
C8_ReadsDoNotWrite ==
    LET ReadOps == {"get_projects", "get_project_settings", "get_api_key"}
    IN
    \A p \in Procs :
        /\ (pc[p] # "idle" /\ call[p].op \in ReadOps)
           => /\ \A i \in 1..Len(calls[p]) : calls[p][i] \in {"reload", "get"}
              /\ pc[p] \notin {"set", "save"}
              /\ disk = pre[p]
        /\ ( /\ Done(p, "get_project_settings")
             /\ Follows(p, "get_project_settings")
             /\ IoWorked(p) )
           => res[p] = prev.res

C8_Witness ==
    \E p \in Procs :
        /\ Done(p, "get_project_settings")
        /\ Follows(p, "get_project_settings")
        /\ res[p].some
        /\ res[p] = prev.res

\* C9: when the stored projects value is not a map of project records, each
\* registry command returns an error and the stored value stays as it was.
C9_CorruptStoreIsAnError ==
    \A p \in Procs :
        ( /\ pc[p] = "done"
          /\ call[p].op \in RegistryOps
          /\ pre[p][STORE_KEY_PROJECTS].t \notin {"object", "absent"} )
        => /\ ~res[p].ok
           /\ disk[STORE_KEY_PROJECTS] = pre[p][STORE_KEY_PROJECTS]

C9_Witness ==
    \E p \in Procs :
        /\ Done(p, "create_project")
        /\ pre[p][STORE_KEY_PROJECTS].t = "string"
        /\ res[p] = Err("Deserialize")

\* C10: every mutating command that succeeds has reloaded the store before
\* its set and saved it after: its store calls are reload, set, save in this
\* order.
C10_ReloadSetSave ==
    LET MutatingOps == {"save_api_key", "create_project", "save_project_settings", "delete_project"}
        \* the store calls other than get, in the order they were made
        Discipline(p) == SelectSeq(calls[p], LAMBDA c : c # "get")
    IN
    \A p \in Procs :
        (pc[p] = "done" /\ call[p].op \in MutatingOps /\ res[p].ok)
        => Discipline(p) = <<"reload", "set", "save">>

\* ------------------------------------------------------ concurrent commands

InvokeConc ==
    \* Tauri runs async commands on a multi-threaded runtime: two commands may
    \* be in flight at once and their store calls interleave.  The store locks
    \* each call, never a sequence of calls.
    LET ConcInputs ==
            {Call("create_project", n, NoSettings, "", <<>>) : n \in {<<"a">>, <<" ", "a">>}}
            \cup {Call("get_projects", <<>>, NoSettings, "", <<>>)}
    IN  \E p \in Procs, c \in ConcInputs : Invoke(p, c) /\ UNCHANGED wpvars

NextConc == Setup \/ InvokeConc \/ Step

SpecConc == Init /\ [][NextConc]_vars

\* both processes have a create_project that returned success, on two
\* different names, and the two commands overlapped: neither was invoked on
\* a file that already held the other's project
BothCreated ==
    /\ \A p \in Procs : Done(p, "create_project") /\ res[p] = Ok
    /\ call[1].name # call[2].name
    /\ \A p, q \in Procs : call[q].name \notin Existing(pre[p])

\* C11: nothing locks the reload-set-save cycle.  When two overlapping
\* create_project calls on different names have both returned success, the
\* settings file holds the default record of at least one of them, and it
\* may hold only one: the other update is lost.
C11_LastWriterWins ==
    BothCreated =>
        \E p \in Procs :
            /\ call[p].name \in Existing(disk)
            /\ disk[STORE_KEY_PROJECTS].m[call[p].name] =
                  [wordpress_url |-> <<>>, wordpress_user |-> <<>>,
                   wordpress_pass |-> <<>>, tool_name |-> call[p].name,
                   article_goal_prompt |-> <<>>, example_url |-> <<>>,
                   sections |-> <<>>, text_generation_model |-> "gpt-4o",
                   target_word_count |-> 1000]

\* the lost update: both returned success, the file has one project
C11_Witness ==
    /\ BothCreated
    /\ Cardinality(Existing(disk)) = 1

\* --------------------------------------------------------- WordPress calls
MaxUrls == 2

MAX_RETRIES == 4
INITIAL_BACKOFF_SECS == 10

\* settings a project may hold when a WordPress command is invoked:
\* configured, empty URL, whitespace-only user, empty password
WpSettingsInputs ==
    { ProjectSettings(url, user, pass, <<"t">>, <<"g">>, <<"e">>,
                      <<[instructions |-> <<"i">>]>>, "gpt-4o-mini", 500) :
        <<url, user, pass>> \in { <<<<"h">>, <<"w">>, <<"p">>>>,
                                  <<<<>>, <<"w">>, <<"p">>>>,
                                  <<<<"h">>, <<" ">>, <<"p">>>>,
                                  <<<<"h">>, <<"w">>, <<>>>> } }

\* StatusCode::is_success: 200..=299
is_success(status) == status >= 200 /\ status < 300

\* the Retry-After header of a response: none, a value that is not visible
\* ASCII ("opaque": to_str fails), a value that is not a u64 ("text": an
\* HTTP date, "-1", too many digits), or an unsigned number of seconds
\* ("int", n)
Header(t, n) == [t |-> t, n |-> n]
NoHeader == Header("none", 0)

\* the JSON body of a response: a WordPressMediaResponse or something else
Body(t, id, source_url) == [t |-> t, id |-> id, source_url |-> source_url]
Junk == Body("junk", 0, "")

\* what a request comes back with: a transport error or a response
Response(t, status, retry_after, body, readable) ==
    [t |-> t, status |-> status, retry_after |-> retry_after, body |-> body,
     readable |-> readable]
SendError == Response("send_err", 0, NoHeader, Junk, FALSE)

\* slip: the failure returned without its message
Failure_no_message(image_url, err_msg) ==
    ImageUploadResult(image_url, FALSE, None, None, None)

Failure(image_url, err_msg) ==
    ImageUploadResult(image_url, FALSE, Some(err_msg), None, None)

Success(image_url, wp_media) ==
    ImageUploadResult(image_url, TRUE, None, Some(wp_media.id), Some(wp_media.source_url))

\* slip: is_empty() without the trim
wordpress_configured_no_trim(settings) ==
    ~ \/ settings.wordpress_url = <<>>
      \/ settings.wordpress_user = <<>>
      \/ settings.wordpress_pass = <<>>

\* the three trim().is_empty() tests of upload_images_to_wordpress and
\* get_wordpress_categories
wordpress_configured(settings) ==
    ~ \/ Trim(settings.wordpress_url) = <<>>
      \/ Trim(settings.wordpress_user) = <<>>
      \/ Trim(settings.wordpress_pass) = <<>>

configured(op, settings) ==
    \* the three tests of publish_to_wordpress, one error each
    LET publish_configured(s) ==
            IF Trim(s.wordpress_url) = <<>> THEN FALSE
            ELSE IF Trim(s.wordpress_user) = <<>> THEN FALSE
            ELSE IF Trim(s.wordpress_pass) = <<>> THEN FALSE
            ELSE TRUE
    IN
    IF op = "publish_to_wordpress" THEN publish_configured(settings)
    ELSE wordpress_configured(settings)

\* slip: the status of the download response is not looked at
download_ignore_status(image_url, download_response) ==
    IF download_response.t = "send_err"
    THEN [ok |-> FALSE, result |-> Failure(image_url, "DownloadSend")]
    ELSE IF ~download_response.readable
    THEN [ok |-> FALSE, result |-> Failure(image_url, "DownloadBody")]
    ELSE [ok |-> TRUE, result |-> NoResult]

\* the download part of process_single_image_upload
download(image_url, download_response) ==
    IF download_response.t = "send_err"
    THEN [ok |-> FALSE, result |-> Failure(image_url, "DownloadSend")]
    ELSE IF ~is_success(download_response.status)
    THEN [ok |-> FALSE, result |-> Failure(image_url, "DownloadStatus")]
    ELSE IF ~download_response.readable
    THEN [ok |-> FALSE, result |-> Failure(image_url, "DownloadBody")]
    ELSE [ok |-> TRUE, result |-> NoResult]

\* 2u64.pow(e)
RECURSIVE pow2(_)
pow2(e) == IF e = 0 THEN 1 ELSE 2 * pow2(e - 1)

\* slip: 2u64.pow(attempts) instead of pow(attempts - 1)
backoff_secs_from_20(n) == INITIAL_BACKOFF_SECS * pow2(n)

backoff_secs(n) == INITIAL_BACKOFF_SECS * pow2(n - 1)

\* retry_header.to_str() and seconds_str.parse::<u64>()
parse_seconds(retry_header) ==
    IF retry_header.t = "int" THEN [ok |-> TRUE, seconds |-> retry_header.n]
    ELSE [ok |-> FALSE, seconds |-> 0]

\* slip: seconds used as it is, without max(1)
wait_secs_no_floor(retry_header, n) ==
    IF retry_header.t = "none" THEN backoff_secs(n)
    ELSE IF parse_seconds(retry_header).ok
    THEN parse_seconds(retry_header).seconds
    ELSE backoff_secs(n)

\* the wait before the next attempt, in seconds
wait_secs(retry_header, n) ==
    LET Max(a, b) == IF a >= b THEN a ELSE b
    IN
    IF retry_header.t = "none" THEN backoff_secs(n)
    ELSE IF parse_seconds(retry_header).ok
    THEN Max(parse_seconds(retry_header).seconds, 1)
    ELSE backoff_secs(n)

\* one pass of the upload loop, n the attempt number: the image's result,
\* or the wait before the next pass
Returned(r) == [returns |-> TRUE, result |-> r, wait |-> 0]
Retry(secs) == [returns |-> FALSE, result |-> NoResult, wait |-> secs]

\* slip: attempts > MAX_RETRIES instead of >=
upload_attempt_one_more(image_url, upload_response, n) ==
    IF upload_response.t = "send_err"
    THEN Returned(Failure(image_url, "UploadSend"))
    ELSE IF upload_response.status \in {200, 201}
    THEN IF upload_response.body.t = "media"
         THEN Returned(Success(image_url, upload_response.body))
         ELSE Returned(Failure(image_url, "Parse"))
    ELSE IF upload_response.status = 429
    THEN IF n > MAX_RETRIES
         THEN Returned(Failure(image_url, "RateLimited"))
         ELSE Retry(wait_secs(upload_response.retry_after, n))
    ELSE Returned(Failure(image_url, "UploadStatus"))

\* slip: server errors retried like 429
upload_attempt_retry_5xx(image_url, upload_response, n) ==
    IF upload_response.t = "send_err"
    THEN Returned(Failure(image_url, "UploadSend"))
    ELSE IF upload_response.status \in {200, 201}
    THEN IF upload_response.body.t = "media"
         THEN Returned(Success(image_url, upload_response.body))
         ELSE Returned(Failure(image_url, "Parse"))
    ELSE IF upload_response.status = 429 \/ upload_response.status >= 500
    THEN IF n >= MAX_RETRIES
         THEN Returned(Failure(image_url, "RateLimited"))
         ELSE Retry(wait_secs(upload_response.retry_after, n))
    ELSE Returned(Failure(image_url, "UploadStatus"))

upload_attempt(image_url, upload_response, n) ==
    IF upload_response.t = "send_err"
    THEN Returned(Failure(image_url, "UploadSend"))
    ELSE IF upload_response.status \in {200, 201}
    THEN IF upload_response.body.t = "media"
         THEN Returned(Success(image_url, upload_response.body))
         ELSE Returned(Failure(image_url, "Parse"))
    ELSE IF upload_response.status = 429
    THEN IF n >= MAX_RETRIES
         THEN Returned(Failure(image_url, "RateLimited"))
         ELSE Retry(wait_secs(upload_response.retry_after, n))
    ELSE Returned(Failure(image_url, "UploadStatus"))

\* PublishRequest.  article_html is kept as what the title pattern
\* (?i)<title>(.*?)</title> captures in it first: nothing, or the text
\* between the tags
PublishRequest(article_html, publish_status, category_id) ==
    [article_html |-> article_html, publish_status |-> publish_status,
     category_id |-> category_id]

\* the captured title, trimmed, when it is not empty; the default otherwise
post_title(article_html, settings) ==
    IF article_html.title = None \/ Trim(article_html.title[1]) = <<>>
    THEN <<"Generated Article for ">> \o settings.tool_name
    ELSE Trim(article_html.title[1])

\* slip: every requested status is passed on
publish_status_unfiltered(req) ==
    IF req.publish_status = None THEN "publish"
    ELSE req.publish_status[1]

\* request.publish_status.as_deref().filter(..).unwrap_or("publish")
publish_status(req) ==
    IF req.publish_status # None
       /\ req.publish_status[1] \in {"publish", "draft", "pending"}
    THEN req.publish_status[1]
    ELSE "publish"

post_payload(req, settings) ==
    LET WordPressPostPayload(title, content, status, categories) ==
            [title |-> title, content |-> content, status |-> status,
             categories |-> categories]
    IN
    WordPressPostPayload(post_title(req.article_html, settings),
                         req.article_html,
                         publish_status(req),
                         IF req.category_id = None THEN None
                         ELSE Some(<<req.category_id[1]>>))

\* Display of a StatusCode and of a u32, for the values the responses and
\* requests here carry
status_text(status) ==
    CASE status = 200 -> "200 OK"
      [] status = 201 -> "201 Created"
      [] status = 204 -> "204 No Content"
      [] status = 401 -> "401 Unauthorized"
      [] status = 404 -> "404 Not Found"
      [] status = 500 -> "500 Internal Server Error"
      [] OTHER -> "other"

u32_text(n) ==
    CASE n = 3 -> "3"
      [] n = 7 -> "7"
      [] n = 8 -> "8"
      [] OTHER -> "n"

ErrMsg(err, msg) == Res(FALSE, err, FALSE, NoSettings, <<>>, msg)
OkMsg(msg) == Res(TRUE, "", FALSE, NoSettings, <<>>, msg)

\* slip: only 200 and 201 count as success, as in the media upload
publish_response_ok_created(req, response) ==
    IF response.t = "send_err" THEN Err("Send")
    ELSE IF response.status \in {200, 201}
    THEN OkMsg(<<"Article successfully published to WordPress with status '",
                 publish_status(req), "'">>
               \o (IF req.category_id = None THEN <<>>
                   ELSE <<" in category ID ", u32_text(req.category_id[1])>>)
               \o <<"!">>)
    ELSE ErrMsg("Upstream",
                <<"WordPress API request failed with status ",
                  status_text(response.status), ": ",
                  IF response.readable THEN response.body.str
                  ELSE "Could not read WordPress error body">>)

\* what publish_to_wordpress returns for the answer to its POST
publish_response(req, response) ==
    IF response.t = "send_err" THEN Err("Send")
    ELSE IF is_success(response.status)
    THEN OkMsg(<<"Article successfully published to WordPress with status '",
                 publish_status(req), "'">>
               \o (IF req.category_id = None THEN <<>>
                   ELSE <<" in category ID ", u32_text(req.category_id[1])>>)
               \o <<"!">>)
    ELSE ErrMsg("Upstream",
                <<"WordPress API request failed with status ",
                  status_text(response.status), ": ",
                  IF response.readable THEN response.body.str
                  ELSE "Could not read WordPress error body">>)

\* WordPress command c is invoked with request rq
StartWp(c, rq) ==
    /\ \A q \in Procs : pc[q] = "idle"
    /\ Invoke(1, c)
    /\ request' = rq
    /\ UNCHANGED <<wp_settings, index, attempts, wait_duration, result,
                   upload_results, responses, waits, net, sent, api_key>>

\* a WordPress command is invoked
InvokeWp ==
    \* UploadImageRequest.image_urls: every list of at most MaxUrls URLs
    LET RequestInputs ==
            LET ImageUrls == {"u1", "u2"}
            IN
            {[image_urls |-> us] : us \in UNION {[1..n -> ImageUrls] : n \in 0..MaxUrls}}
        WpCallInputs ==
            {Call(op, n, NoSettings, "", <<>>) : op \in WpOps, n \in {<<"a">>, <<"a", "a">>}}
        PublishInputs ==
            LET ArticleHtmls == {[title |-> t] : t \in {None, Some(<<" ">>), Some(<<" ", "a">>)}}
                PublishStatuses ==
                    {None} \cup {Some(st) : st \in {"publish", "draft", "pending", "private", "Draft", ""}}
            IN
            {PublishRequest(html, st, cat) :
                html \in ArticleHtmls, st \in PublishStatuses, cat \in {None, Some(3)}}
    IN  \E c \in WpCallInputs :
            \E rq \in CASE c.op = "upload_images_to_wordpress" -> RequestInputs
                         [] c.op = "publish_to_wordpress" -> PublishInputs
                         [] OTHER -> {NoRequest} :
                StartWp(c, rq) /\ UNCHANGED pipeline

\* get_project_settings(..).await?.ok_or_else(..)? and the configuration test
WpGet(p) ==
    /\ pc[p] = "get"
    /\ call[p].op \in WpOps
    /\ calls' = [calls EXCEPT ![p] = Append(@, "get")]
    /\ LET settings == get_project_settings(call[p].name, mem).res
           finish(r) == /\ pc' = [pc EXCEPT ![p] = "done"]
                        /\ res' = [res EXCEPT ![p] = r]
                        /\ UNCHANGED <<wp_settings, index>>
       IN
        IF ~settings.ok THEN finish(settings)
        ELSE IF ~settings.some THEN finish(Err("SettingsNotFound"))
        ELSE IF ~configured(call[p].op, settings.rec) THEN finish(Err("NotConfigured"))
        ELSE IF call[p].op # "upload_images_to_wordpress"
        THEN /\ pc' = [pc EXCEPT ![p] = "request"]
             /\ wp_settings' = settings.rec
             /\ UNCHANGED <<res, index>>
        ELSE IF request.image_urls = <<>>
        THEN /\ pc' = [pc EXCEPT ![p] = "done"]
             /\ res' = [res EXCEPT ![p] = Ok]
             /\ wp_settings' = settings.rec
             /\ index' = index
        ELSE /\ pc' = [pc EXCEPT ![p] = "download"]
             /\ wp_settings' = settings.rec
             /\ index' = 1
             /\ res' = res
    /\ UNCHANGED <<booted, disk, mem, call, local, pre, prev>>
    /\ UNCHANGED <<request, attempts, wait_duration, result, upload_results,
                   responses, waits, net, sent, api_key, pipeline>>

\* client.get(image_url).send() and bytes()
Download(p) ==
    LET DownloadResponses ==
            {SendError}
            \cup {Response("resp", 200, NoHeader, Junk, b) : b \in BOOLEAN}
            \cup {Response("resp", st, NoHeader, Junk, TRUE) : st \in {404, 429}}
    IN
    /\ pc[p] = "download"
    /\ \E download_response \in DownloadResponses :
        LET d == download(request.image_urls[index], download_response) IN
        /\ responses' = [responses EXCEPT !.download = Some(download_response)]
        /\ result' = d.result
        /\ pc' = [pc EXCEPT ![p] = IF d.ok THEN "upload" ELSE "push"]
    /\ net' = [net EXCEPT !.downloads = @ + 1]
    /\ attempts' = 0
    /\ UNCHANGED <<booted, disk, mem, call, local, res, calls, pre, prev>>
    /\ UNCHANGED <<request, wp_settings, index, wait_duration, upload_results, waits, sent, api_key, pipeline>>

\* one pass of the loop: attempts += 1, the POST and the match on its status
Upload(p) ==
    LET UploadResponses ==
            LET RetryAfterHeaders ==
                    {NoHeader, Header("opaque", 0), Header("text", 0),
                     Header("int", 0), Header("int", 5)}
                MediaBodies == {Body("media", 7, "https://cms/x.png"), Body("media", 8, "https://cms/y.png")}
            IN
            {SendError}
            \cup {Response("resp", st, NoHeader, b, TRUE) :
                    st \in {200, 201, 202}, b \in MediaBodies \cup {Junk}}
            \cup {Response("resp", 429, h, Junk, TRUE) : h \in RetryAfterHeaders}
            \cup {Response("resp", st, NoHeader, Junk, TRUE) : st \in {404, 500}}
    IN
    /\ pc[p] = "upload"
    /\ attempts' = attempts + 1
    /\ \E upload_response \in UploadResponses :
        LET u == upload_attempt(request.image_urls[index], upload_response, attempts + 1) IN
        /\ responses' = [responses EXCEPT !.upload = Some(upload_response)]
        /\ result' = u.result
        /\ wait_duration' = u.wait
        /\ pc' = [pc EXCEPT ![p] = IF u.returns THEN "push" ELSE "sleep"]
    /\ net' = [net EXCEPT !.uploads = @ + 1]
    /\ UNCHANGED <<booted, disk, mem, call, local, res, calls, pre, prev>>
    /\ UNCHANGED <<request, wp_settings, index, upload_results, waits, sent, api_key, pipeline>>

\* slip: the retry starts the function again, download included
Sleep_then_download(p) ==
    /\ pc[p] = "sleep"
    /\ waits' = Append(waits, wait_duration)
    /\ wait_duration' = 0
    /\ net' = [net EXCEPT !.sleeps = @ + 1]
    /\ pc' = [pc EXCEPT ![p] = "download"]
    /\ UNCHANGED <<booted, disk, mem, call, local, res, calls, pre, prev>>
    /\ UNCHANGED <<request, wp_settings, index, attempts, result, upload_results,
                   responses, sent, api_key, pipeline>>

\* sleep(wait_duration).await
Sleep(p) ==
    /\ pc[p] = "sleep"
    /\ waits' = Append(waits, wait_duration)
    /\ wait_duration' = 0
    /\ net' = [net EXCEPT !.sleeps = @ + 1]
    /\ pc' = [pc EXCEPT ![p] = "upload"]
    /\ UNCHANGED <<booted, disk, mem, call, local, res, calls, pre, prev>>
    /\ UNCHANGED <<request, wp_settings, index, attempts, result, upload_results,
                   responses, sent, api_key, pipeline>>

\* slip: a failed image ends the batch with an error (a ? on the item)
Push_abort_on_failure(p) ==
    /\ pc[p] = "push"
    /\ upload_results' = Append(upload_results, result)
    /\ result' = NoResult
    /\ responses' = NoResponses
    /\ waits' = <<>>
    /\ attempts' = 0
    /\ IF ~result.success
       THEN /\ index' = index
            /\ pc' = [pc EXCEPT ![p] = "done"]
            /\ res' = [res EXCEPT ![p] = Err("ItemFailed")]
       ELSE IF index < Len(request.image_urls)
       THEN /\ index' = index + 1
            /\ pc' = [pc EXCEPT ![p] = "download"]
            /\ res' = res
       ELSE /\ index' = index
            /\ pc' = [pc EXCEPT ![p] = "done"]
            /\ res' = [res EXCEPT ![p] = Ok]
    /\ UNCHANGED <<booted, disk, mem, call, local, calls, pre, prev>>
    /\ UNCHANGED <<request, wp_settings, wait_duration, net, sent, api_key, pipeline>>

\* slip: the result inserted at the front of the list
Push_front(p) ==
    /\ pc[p] = "push"
    /\ upload_results' = <<result>> \o upload_results
    /\ result' = NoResult
    /\ responses' = NoResponses
    /\ waits' = <<>>
    /\ attempts' = 0
    /\ IF index < Len(request.image_urls)
       THEN /\ index' = index + 1
            /\ pc' = [pc EXCEPT ![p] = "download"]
            /\ res' = res
       ELSE /\ index' = index
            /\ pc' = [pc EXCEPT ![p] = "done"]
            /\ res' = [res EXCEPT ![p] = Ok]
    /\ UNCHANGED <<booted, disk, mem, call, local, calls, pre, prev>>
    /\ UNCHANGED <<request, wp_settings, wait_duration, net, sent, api_key, pipeline>>

\* upload_results.push(result) and the next turn of the for loop, or the return
Push(p) ==
    /\ pc[p] = "push"
    /\ upload_results' = Append(upload_results, result)
    /\ result' = NoResult
    /\ responses' = NoResponses
    /\ waits' = <<>>
    /\ attempts' = 0
    /\ IF index < Len(request.image_urls)
       THEN /\ index' = index + 1
            /\ pc' = [pc EXCEPT ![p] = "download"]
            /\ res' = res
       ELSE /\ index' = index
            /\ pc' = [pc EXCEPT ![p] = "done"]
            /\ res' = [res EXCEPT ![p] = Ok]
    /\ UNCHANGED <<booted, disk, mem, call, local, calls, pre, prev>>
    /\ UNCHANGED <<request, wp_settings, wait_duration, net, sent, api_key, pipeline>>

\* the request of get_wordpress_categories or publish_to_wordpress
Request(p) ==
    LET OtherResponses ==
            {SendError}
            \cup {Response("resp", 200, NoHeader, Junk, b) : b \in BOOLEAN}
            \cup {Response("resp", st, NoHeader, Junk, TRUE) : st \in {201, 404, 500}}
        PostResponses ==
            \* a response body that is read as text
            LET Text(str) == [t |-> "text", str |-> str]
            IN
            {SendError}
            \cup {Response("resp", st, NoHeader, Text(b), r) :
                    st \in {201, 204, 401, 500}, b \in {"b1", "b2"}, r \in BOOLEAN}
        \* the single request of get_wordpress_categories
        other_request(op, response) ==
            IF response.t = "send_err" THEN Err("Send")
            ELSE IF is_success(response.status)
            THEN IF op = "get_wordpress_categories" /\ ~response.readable
                 THEN Err("Parse") ELSE Ok
            ELSE Err("Upstream")
    IN
    /\ pc[p] = "request"
    /\ call[p].op \in WpOps
    /\ IF call[p].op = "publish_to_wordpress"
       THEN \E response \in PostResponses :
            /\ sent' = Some(post_payload(request, wp_settings))
            /\ responses' = [responses EXCEPT !.other = Some(response)]
            /\ res' = [res EXCEPT ![p] = publish_response(request, response)]
       ELSE \E response \in OtherResponses :
            /\ sent' = sent
            /\ responses' = [responses EXCEPT !.other = Some(response)]
            /\ res' = [res EXCEPT ![p] = other_request(call[p].op, response)]
    /\ net' = [net EXCEPT !.others = @ + 1]
    /\ pc' = [pc EXCEPT ![p] = "done"]
    /\ UNCHANGED <<booted, disk, mem, call, local, calls, pre, prev>>
    /\ UNCHANGED <<request, wp_settings, index, attempts, wait_duration, result,
                   upload_results, waits, api_key, pipeline>>

InitWp ==
    \* the settings file when a WordPress command is invoked: one project "a",
    \* created and then saved with one of the settings above
    LET WpDocs ==
            {[InitialDoc EXCEPT ![STORE_KEY_PROJECTS] = to_value([n \in {<<"a">>} |-> st])] :
                st \in WpSettingsInputs}
    IN
    /\ booted = TRUE
    /\ disk \in WpDocs
    /\ mem = disk
    /\ pc = [p \in Procs |-> "idle"]
    /\ call = [p \in Procs |-> NoCall]
    /\ local = [p \in Procs |-> NoLocal]
    /\ res = [p \in Procs |-> Pending]
    /\ calls = [p \in Procs |-> <<>>]
    /\ pre = [p \in Procs |-> EmptyDoc]
    /\ prev = NoPrev
    /\ WpIdle
    /\ pipeline = NoPipeline

NextWp ==
    \/ InvokeWp
    \/ Reload(1)
    \/ WpGet(1)
    \/ Download(1)
    \/ Upload(1)
    \/ Sleep(1)
    \/ Push(1)
    \/ Request(1)
    \/ Return(1)

SpecWp == InitWp /\ [][NextWp]_vars

\* --------------------------------------------------- claims on the uploads
UploadOp == "upload_images_to_wordpress"

\* p runs upload_images_to_wordpress and is inside process_single_image_upload
\* or about to push its result
InLoop(p) == call[p].op = UploadOp /\ pc[p] \in {"download", "upload", "sleep", "push"}

\* the project the command names exists in a well-formed store
ProjectExists(p) == WellFormed(pre[p]) /\ call[p].name \in Existing(pre[p])

\* the record of that project
Stored(p) == pre[p][STORE_KEY_PROJECTS].m[call[p].name]

\* one of URL, user and password is empty or whitespace-only
Blank(st) ==
    \E f \in {st.wordpress_url, st.wordpress_user, st.wordpress_pass} :
        \A i \in 1..Len(f) : f[i] = " "

\* 2xx
Is2xx(r) == r.t = "resp" /\ r.status \in 200..299

\* the download failed: transport error, non-success status or unreadable body
DownloadFailed(d) == d.t = "send_err" \/ ~Is2xx(d) \/ ~d.readable

\* the image being processed
CurrentUrl == request.image_urls[index]

\* C12 as stated: every invocation of upload_images_to_wordpress with N URLs
\* returns a list of N results, never a top-level error.
C12_AlwaysAList ==
    \A p \in Procs :
        Done(p, UploadOp)
        => res[p].ok /\ Len(upload_results) = Len(request.image_urls)

\* C12 amended: an invocation on an existing, configured project whose
\* settings load returns a list of exactly N results, even when every image
\* fails; no download or upload failure gives a top-level error.
C12_ListWhenConfigured ==
    \A p \in Procs :
        /\ ( /\ Done(p, UploadOp)
             /\ IoWorked(p)
             /\ ProjectExists(p)
             /\ ~Blank(Stored(p)) )
           => res[p] = Ok /\ Len(upload_results) = Len(request.image_urls)
        /\ InLoop(p) => res[p] = Pending

C12_Witness ==
    \E p \in Procs :
        /\ Done(p, UploadOp)
        /\ res[p] = Ok
        /\ Len(upload_results) = 2
        /\ \A i \in 1..2 : ~upload_results[i].success

\* C13: for a configured project the URLs are processed once each and in
\* input order, a failure does not stop the batch: result i carries the
\* i-th URL, and the result of an image is the one its own download and
\* upload responses give.
C13_InOrderFromOwnResponses ==
    \A p \in Procs :
        /\ InLoop(p)
           => /\ Len(upload_results) = index - 1
              /\ net.downloads = IF pc[p] = "download" THEN index - 1 ELSE index
        /\ (call[p].op = UploadOp /\ pc[p] # "idle")
           => \A i \in 1..Len(upload_results) :
                 upload_results[i].original_url = request.image_urls[i]
        /\ (Done(p, UploadOp) /\ res[p].ok)
           => Len(upload_results) = Len(request.image_urls)
        /\ (call[p].op = UploadOp /\ pc[p] = "push")
           => LET d == responses.download[1] IN
              /\ result.original_url = CurrentUrl
              /\ IF DownloadFailed(d)
                 THEN /\ ~result.success
                      /\ result.error = Some(CASE d.t = "send_err" -> "DownloadSend"
                                               [] ~Is2xx(d) -> "DownloadStatus"
                                               [] OTHER -> "DownloadBody")
                 ELSE LET u == responses.upload[1] IN
                      IF u.t = "resp" /\ u.status \in {200, 201} /\ u.body.t = "media"
                      THEN /\ result.success
                           /\ result.error = None
                           /\ result.wordpress_media_id = Some(u.body.id)
                           /\ result.wordpress_media_url = Some(u.body.source_url)
                      ELSE /\ ~result.success
                           /\ result.wordpress_media_id = None
                           /\ result.error =
                                Some(CASE u.t = "send_err" -> "UploadSend"
                                       [] u.status \in {200, 201} -> "Parse"
                                       [] u.status = 429 -> "RateLimited"
                                       [] OTHER -> "UploadStatus")

\* first image uploaded with id 7, second image's download failed
C13_Witness ==
    \E p \in Procs :
        /\ Done(p, UploadOp)
        /\ request.image_urls = <<"u2", "u1">>
        /\ upload_results =
             << ImageUploadResult("u2", TRUE, None, Some(7), Some("https://cms/x.png")),
                ImageUploadResult("u1", FALSE, Some("DownloadStatus"), None, None) >>

\* C14: on an existing project with a blank URL, user or password, each of
\* the three WordPress commands returns NotConfigured and sends no request.
C14_NotConfiguredNoRequest ==
    \A p \in Procs :
        ( /\ call[p].op \in WpOps
          /\ pc[p] # "idle"
          /\ ProjectExists(p)
          /\ Blank(Stored(p)) )
        => /\ net = NoNet
           /\ pc[p] \in {"reload", "get", "done"}
           /\ (pc[p] = "done" /\ IoWorked(p)) => res[p] = Err("NotConfigured")

C14_Witness ==
    \E p \in Procs :
        /\ Done(p, "publish_to_wordpress")
        /\ ProjectExists(p)
        /\ Stored(p).wordpress_user = <<" ">>
        /\ res[p] = Err("NotConfigured")

\* C15: at most 4 upload requests are sent for an image; when the 4th is
\* answered 429 the image fails as rate limited at once, with no wait and no
\* 5th attempt.
C15_FourAttempts ==
    \A p \in Procs :
        InLoop(p)
        => /\ attempts <= 4
           /\ Len(waits) <= 3
           /\ ( /\ attempts = 4
                /\ responses.upload # None
                /\ responses.upload[1].status = 429 )
              => /\ pc[p] = "push"
                 /\ result = ImageUploadResult(CurrentUrl, FALSE, Some("RateLimited"), None, None)
                 /\ wait_duration = 0
                 /\ Len(waits) = 3

C15_Witness ==
    \E p \in Procs :
        /\ InLoop(p)
        /\ attempts = 4
        /\ responses.upload # None
        /\ responses.upload[1].status = 429
        /\ index = 2

\* about to sleep after attempt k was answered 429 with Retry-After header h
Sleeping(p) == InLoop(p) /\ pc[p] = "sleep"

\* C16: after attempt k = 1, 2, 3 answered 429 with no Retry-After header,
\* or one that is not a whole number of seconds, the wait before attempt
\* k+1 is 10 * 2^(k-1) seconds: 10, 20, 40.
C16_ExponentialBackoff ==
    \A p \in Procs :
        (Sleeping(p) /\ responses.upload[1].retry_after.t # "int")
        => /\ attempts \in 1..3
           /\ wait_duration = CASE attempts = 1 -> 10
                                [] attempts = 2 -> 20
                                [] attempts = 3 -> 40
                                [] OTHER -> 0

C16_Witness ==
    \E p \in Procs :
        /\ Sleeping(p)
        /\ responses.upload[1].retry_after.t = "text"
        /\ attempts = 3
        /\ wait_duration = 40

\* C17: after an attempt before the 4th answered 429 with Retry-After: s,
\* s a whole number of seconds, the wait is max(s, 1) seconds whatever the
\* attempt number; the exponential backoff is not used.
C17_RetryAfterObeyed ==
    \A p \in Procs :
        (Sleeping(p) /\ responses.upload[1].retry_after.t = "int")
        => wait_duration = IF responses.upload[1].retry_after.n >= 1
                           THEN responses.upload[1].retry_after.n ELSE 1

C17_Witness ==
    \E p \in Procs :
        /\ Sleeping(p)
        /\ responses.upload[1].retry_after = [t |-> "int", n |-> 0]
        /\ attempts = 3
        /\ wait_duration = 1

\* C18: an upload attempt answered by a status that is neither a success
\* status nor 429, or that fails in transport, ends the image with a failure
\* after that attempt: no wait, no further upload request.
C18_NoRetryOnOtherFailure ==
    \* the attempt was answered by a status that is neither 2xx nor 429, or the
    \* request failed in transport
    LET HardFailure(u) == u.t = "send_err" \/ (~Is2xx(u) /\ u.status # 429)
    IN
    \A p \in Procs :
        (InLoop(p) /\ responses.upload # None /\ HardFailure(responses.upload[1]))
        => /\ pc[p] = "push"
           /\ ~result.success
           /\ result.error # None
           /\ wait_duration = 0
           /\ Len(waits) = attempts - 1

C18_Witness ==
    \E p \in Procs :
        /\ InLoop(p)
        /\ responses.upload # None
        /\ responses.upload[1].status = 500
        /\ attempts = 2
        /\ pc[p] = "push"

\* C19: an upload attempt answered 2xx ends the image: a success with the
\* media id and URL of the body when the body parses, a failure with no
\* retry when it does not.
C19_SuccessStatusParsed ==
    \A p \in Procs :
        (InLoop(p) /\ responses.upload # None /\ Is2xx(responses.upload[1]))
        => /\ pc[p] = "push"
           /\ IF responses.upload[1].body.t = "media"
              THEN result = ImageUploadResult(CurrentUrl, TRUE, None,
                                Some(responses.upload[1].body.id),
                                Some(responses.upload[1].body.source_url))
              ELSE ~result.success /\ result.error # None

\* C20: when the download fails the image fails at once: the download is
\* not retried and no upload request is sent for the image.
C20_DownloadFailureIsFinal ==
    \A p \in Procs :
        (InLoop(p) /\ responses.download # None /\ DownloadFailed(responses.download[1]))
        => /\ pc[p] = "push"
           /\ ~result.success
           /\ result.error # None
           /\ attempts = 0
           /\ responses.upload = None
           /\ waits = <<>>
           /\ net.downloads = index

C20_Witness ==
    \E p \in Procs :
        /\ InLoop(p)
        /\ responses.download # None
        /\ responses.download[1].status = 429
        /\ pc[p] = "push"
        /\ net.uploads > 0

\* -------------------------------------------------- claims on the publish
PublishOp == "publish_to_wordpress"

\* C21: the post status publish_to_wordpress sends is the requested one
\* when that is exactly "publish", "draft" or "pending", and "publish" when
\* none is requested or any other string is.
C21_StatusFilter ==
    \A p \in Procs :
        (call[p].op = PublishOp /\ sent # None)
        => sent[1].status =
             CASE request.publish_status = <<"publish">> -> "publish"
               [] request.publish_status = <<"draft">> -> "draft"
               [] request.publish_status = <<"pending">> -> "pending"
               [] OTHER -> "publish"

C21_Witness ==
    \E p \in Procs :
        /\ Done(p, PublishOp)
        /\ request.publish_status = <<"Draft">>
        /\ sent # None
        /\ sent[1].status = "publish"

\* C22: on an existing, configured project publish_to_wordpress sends one
\* createPost request and no second one; it returns success exactly when
\* the answer's status is 2xx, and for any other status a failure that
\* carries the status and the body of the answer.
C22_OnePostNoRetry ==
    \A p \in Procs :
        /\ call[p].op = PublishOp => net.others <= 1
        /\ ( /\ Done(p, PublishOp)
             /\ IoWorked(p)
             /\ ProjectExists(p)
             /\ ~Blank(Stored(p)) )
           => /\ net.others = 1
              /\ responses.other # None
              /\ LET r == responses.other[1] IN
                 /\ res[p].ok <=> (r.t = "resp" /\ r.status \in 200..299)
                 /\ (r.t = "resp" /\ r.status = 401)
                    => /\ res[p].err = "Upstream"
                       /\ res[p].str[2] = "401 Unauthorized"
                 /\ (r.t = "resp" /\ r.status = 500)
                    => /\ res[p].err = "Upstream"
                       /\ res[p].str[2] = "500 Internal Server Error"
                 /\ (r.t = "resp" /\ r.status \notin 200..299 /\ r.readable)
                    => res[p].str[4] = r.body.str

C22_Witness ==
    \E p \in Procs :
        /\ Done(p, PublishOp)
        /\ responses.other # None
        /\ responses.other[1].status = 500
        /\ res[p].str = <<"WordPress API request failed with status ",
                          "500 Internal Server Error", ": ", "b2">>

\* ----------------------------------------------- text and image providers
GenerateOp == "generate_full_article"
SuggestOp == "suggest_image_prompts"
PlaceholdersOp == "get_article_with_image_placeholders_llm"
ImageOp == "generate_ideogram_image"

TextOps == {GenerateOp, SuggestOp, PlaceholdersOp}
ProviderOps == TextOps \cup {ImageOp}

RECURSIVE Count(_, _)
Count(text, token) ==
    IF text = <<>> THEN 0
    ELSE (IF Head(text) = token THEN 1 ELSE 0) + Count(Tail(text), token)

\* ImageDetailsForLLM
ImageDetailsForLLM(wordpress_media_id, wordpress_media_url, alt_text, placeholder_index) ==
    [wordpress_media_id |-> wordpress_media_id,
     wordpress_media_url |-> wordpress_media_url,
     alt_text |-> alt_text, placeholder_index |-> placeholder_index]

InsertPlaceholdersLLMRequest(article_html, images) ==
    [article_html |-> article_html, images |-> images]

ProviderRequests(op) ==
    LET Image1 == ImageDetailsForLLM(7, "https://cms/x.png", "alt", 1)
        Image2 == ImageDetailsForLLM(8, "https://cms/y.png", "alt", 2)
        FullArticleRequest(tool_name, article_goal_prompt, example_url, sections, model, target_word_count) ==
            [tool_name |-> tool_name, article_goal_prompt |-> article_goal_prompt,
             example_url |-> example_url, sections |-> sections, model |-> model,
             target_word_count |-> target_word_count]
        ArticleTexts == {<<"x">>, <<" ", "x", " ">>}
    IN
    CASE op = GenerateOp ->
           {FullArticleRequest(<<"t">>, <<"g">>, <<"e">>, <<[instructions |-> <<"i">>]>>,
                               m, 500) : m \in {"gpt-4o", "gpt-4o-mini"}}
      [] op = SuggestOp -> {[article_text |-> a] : a \in ArticleTexts}
      [] op = PlaceholdersOp ->
           {InsertPlaceholdersLLMRequest(a, imgs) :
               a \in ArticleTexts, imgs \in {<<>>, <<Image1>>, <<Image1, Image2>>}}
      [] op = ImageOp ->
           {[prompt |-> "q1", rendering_speed |-> sp, aspect_ratio |-> None] :
               sp \in {None, Some("QUALITY")}}

Raw(text) == [t |-> "raw", text |-> text]

\* response_body_text
body_text(body) ==
    CASE body.t = "array" -> <<"[">> \o body.prompts \o <<"]">>
      [] body.t = "raw" -> body.text
      [] body.t = "chat" -> <<"{", "choices", "}">>
      [] OTHER -> <<"{", "data", "}">>

KeyName(op) == IF op = ImageOp THEN STORE_KEY_IMAGE_API ELSE STORE_KEY_TEXT_API

\* slip: a missing key becomes the empty key (unwrap_or_default)
fetch_api_key_or_default(op, store) ==
    LET got == get_api_key(KeyName(op), store).res IN
    IF ~got.ok THEN got
    ELSE IF ~got.some THEN OkSomeStr(<<>>)
    ELSE got

\* get_api_key(app, KEY).await?.ok_or_else(|| "... not found in store.")?
fetch_api_key(op, store) ==
    LET got == get_api_key(KeyName(op), store).res IN
    IF ~got.ok THEN got
    ELSE IF ~got.some THEN Err("KeyNotFound")
    ELSE got

\* what the command does with the key before it builds its request:
\* generate_full_article prints &api_key[..10], which panics when the key
\* is shorter than 10 bytes, and tests is_empty() after that;
\* generate_ideogram_image puts the key in a header value
use_api_key(op, key) ==
    \* HeaderValue::from_str(&api_key): no control character in the value
    LET header_valid(k) == \A i \in 1..Len(k) : k[i] # "\n"
        Proceed == [t |-> "proceed", res |-> Pending]
        Panic == [t |-> "panic", res |-> Pending]
        Fail(e) == [t |-> "return", res |-> Err(e)]
    IN
    CASE op = GenerateOp ->
           IF Len(key) < 10 THEN Panic
           ELSE IF key = <<>> THEN Fail("EmptyKey")
           ELSE Proceed
      [] op = ImageOp -> IF header_valid(key) THEN Proceed ELSE Fail("InvalidKey")
      [] OTHER -> Proceed

Upstream(provider, response) ==
    ErrMsg("Upstream", <<provider, status_text(response.status), ": ">>
                       \o body_text(response.body))

\* generate_full_article, from the answer to its request
generate_response(response) ==
    IF response.t = "send_err" THEN Err("Send")
    ELSE IF ~response.readable THEN Err("ReadBody")
    ELSE IF is_success(response.status)
    THEN IF response.body.t = "chat"
         THEN IF response.body.choices = <<>> THEN Err("NoChoices")
              ELSE OkMsg(response.body.choices[1])
         ELSE Err("Parse")
    ELSE Upstream("OpenAI API request failed with status ", response)

\* suggest_image_prompts: the content of the first choice must be a JSON
\* array of strings; when the body is not a chat completion the body itself
\* is tried as one
suggest_response(response) ==
    \* serde_json::from_str::<Vec<String>>(content)
    LET parse_prompts(content) ==
            IF Len(content) >= 2 /\ content[1] = "[" /\ content[Len(content)] = "]"
            THEN [ok |-> TRUE, prompts |-> SubSeq(content, 2, Len(content) - 1)]
            ELSE [ok |-> FALSE, prompts |-> <<>>]
    IN
    IF response.t = "send_err" THEN Err("Send")
    ELSE IF ~response.readable THEN Err("ReadBody")
    ELSE IF is_success(response.status)
    THEN IF response.body.t = "chat"
         THEN IF response.body.choices = <<>> THEN Err("NoChoices")
              ELSE IF parse_prompts(response.body.choices[1]).ok
              THEN OkNames(parse_prompts(response.body.choices[1]).prompts)
              ELSE Err("NotJsonArray")
         ELSE IF parse_prompts(body_text(response.body)).ok
         THEN OkNames(parse_prompts(body_text(response.body)).prompts)
         ELSE Err("Parse")
    ELSE Upstream("OpenAI API request failed with status ", response)

\* get_article_with_image_placeholders_llm: the trimmed content of the
\* first choice, or the trimmed body when it is not a chat completion
placeholders_response(response) ==
    IF response.t = "send_err" THEN Err("Send")
    ELSE IF ~response.readable THEN Err("ReadBody")
    ELSE IF is_success(response.status)
    THEN IF response.body.t = "chat"
         THEN IF response.body.choices = <<>> THEN Err("NoChoices")
              ELSE OkMsg(Trim(response.body.choices[1]))
         ELSE OkMsg(Trim(body_text(response.body)))
    ELSE Upstream("OpenAI API request failed with status ", response)

\* generate_ideogram_image: the URL of the first image
image_response(response) ==
    IF response.t = "send_err" THEN Err("Send")
    ELSE IF is_success(response.status)
    THEN IF ~response.readable \/ response.body.t # "ideogram" THEN Err("Parse")
         ELSE IF response.body.data = None THEN Err("MissingData")
         ELSE IF response.body.data[1] = <<>> THEN Err("EmptyData")
         ELSE OkMsg(<<response.body.data[1][1]>>)
    ELSE ErrMsg("Upstream",
                <<"Ideogram API request failed with status ",
                  status_text(response.status), ": ">>
                \o (IF response.readable THEN body_text(response.body)
                    ELSE <<"Could not read error body">>))

\* slip: the images.is_empty() test left out
early_return_never(op, req) == [returns |-> FALSE, res |-> Pending]

\* the return of get_article_with_image_placeholders_llm before any lookup
early_return(op, req) ==
    IF op = PlaceholdersOp /\ req.images = <<>>
    THEN [returns |-> TRUE, res |-> OkMsg(req.article_html)]
    ELSE [returns |-> FALSE, res |-> Pending]

\* provider command op is invoked with request rq
StartProvider(op, rq) ==
    /\ booted
    /\ \A q \in Procs : pc[q] = "idle"
    /\ call' = [call EXCEPT ![1] = Call(op, <<>>, NoSettings, "", <<>>)]
    /\ pre' = [pre EXCEPT ![1] = disk]
    /\ calls' = [calls EXCEPT ![1] = <<>>]
    /\ request' = rq
    /\ IF early_return(op, rq).returns
       THEN /\ pc' = [pc EXCEPT ![1] = "done"]
            /\ res' = [res EXCEPT ![1] = early_return(op, rq).res]
       ELSE /\ pc' = [pc EXCEPT ![1] = "reload"]
            /\ res' = [res EXCEPT ![1] = Pending]
    /\ UNCHANGED <<booted, disk, mem, local, prev>>
    /\ UNCHANGED <<wp_settings, index, attempts, wait_duration, result,
                   upload_results, responses, waits, net, sent, api_key>>

\* a provider command is invoked
InvokeProvider == \E op \in ProviderOps : \E rq \in ProviderRequests(op) :
    StartProvider(op, rq) /\ UNCHANGED pipeline

\* save_api_key for one of the two provider keys
InvokeSaveKey ==
    \* keys a caller stores: "", two bytes, ten bytes, and one with a line feed
    LET ProviderKeys ==
            { <<>>, <<"s", "k">>,
              <<"s", "k", "-", "a", "a", "a", "a", "a", "a", "a">>,
              <<"k", "\n">> }
    IN  \E k \in {STORE_KEY_TEXT_API, STORE_KEY_IMAGE_API}, v \in ProviderKeys :
            /\ \A q \in Procs : pc[q] = "idle"
            /\ Invoke(1, Call("save_api_key", <<>>, NoSettings, k, v))
            /\ UNCHANGED wpvars

\* s.get(&key_name) in get_api_key, and the command up to its request
ProviderGet(p) ==
    /\ pc[p] = "get"
    /\ call[p].op \in ProviderOps
    /\ calls' = [calls EXCEPT ![p] = Append(@, "get")]
    /\ LET got == fetch_api_key(call[p].op, mem) IN
        IF ~got.ok
        THEN /\ pc' = [pc EXCEPT ![p] = "done"]
             /\ res' = [res EXCEPT ![p] = got]
             /\ api_key' = api_key
        ELSE LET use == use_api_key(call[p].op, got.str) IN
             /\ api_key' = Some(got.str)
             /\ pc' = [pc EXCEPT ![p] = CASE use.t = "proceed" -> "request"
                                          [] use.t = "panic" -> "panicked"
                                          [] OTHER -> "done"]
             /\ res' = [res EXCEPT ![p] = use.res]
    /\ UNCHANGED <<booted, disk, mem, call, local, pre, prev>>
    /\ UNCHANGED <<request, wp_settings, index, attempts, wait_duration, result,
                   upload_results, responses, waits, net, sent, pipeline>>

\* the request to the provider and the handling of its answer
ProviderRequest(p) ==
    \* the request a provider command sends
    LET provider_payload(op, req, key) ==
            CASE op = GenerateOp -> [key |-> key, model |-> req.model, prompt |-> req]
              [] op = SuggestOp -> [key |-> key, model |-> "gpt-4-turbo", prompt |-> req]
              [] op = PlaceholdersOp -> [key |-> key, model |-> "gpt-4o", prompt |-> req]
              [] OTHER -> [key |-> key, prompt |-> req.prompt,
                           rendering_speed |-> IF req.rendering_speed = None THEN "TURBO"
                                               ELSE req.rendering_speed[1],
                           aspect_ratio |-> req.aspect_ratio]
        provider_response(op, response) ==
            CASE op = GenerateOp -> generate_response(response)
              [] op = SuggestOp -> suggest_response(response)
              [] op = PlaceholdersOp -> placeholders_response(response)
              [] OTHER -> image_response(response)
        TextResponses ==
            LET TextBodies ==
                    \* the body of a response as the commands see it: a chat completion with
                    \* its choices' message contents, a JSON array of strings, an image
                    \* generation answer with its data field, or any other text
                    LET Chat(choices) == [t |-> "chat", choices |-> choices]
                        Array(prompts) == [t |-> "array", prompts |-> prompts]
                        Contents ==
                            { <<"x">>,
                              <<" ", "x", "p1", " ">>,
                              <<"p1", "x", "p2">>,
                              <<"p1", "p1", "x">>,
                              <<"[", "q1", "q2", "]">> }
                    IN
                    {Chat(<<>>)} \cup {Chat(<<c>>) : c \in Contents}
                    \cup {Array(<<"q1">>), Raw(<<" ", "oops">>)}
            IN
            {SendError}
            \cup {Response("resp", 200, NoHeader, b, TRUE) : b \in TextBodies}
            \cup {Response("resp", 200, NoHeader, Raw(<<>>), FALSE)}
            \cup {Response("resp", st, NoHeader, Raw(<<"denied">>), TRUE) : st \in {401, 500}}
        ImageResponses ==
            LET Ideogram(data) == [t |-> "ideogram", data |-> data]
            IN
            {SendError}
            \cup {Response("resp", 200, NoHeader, b, TRUE) :
                    b \in {Ideogram(None), Ideogram(Some(<<>>)), Ideogram(Some(<<"u1">>)),
                           Ideogram(Some(<<"u2", "u1">>)), Raw(<<"oops">>)}}
            \cup {Response("resp", st, NoHeader, Raw(<<"denied">>), r) :
                    st \in {401, 500}, r \in BOOLEAN}
    IN
    /\ pc[p] = "request"
    /\ call[p].op \in ProviderOps
    /\ \E response \in IF call[p].op = ImageOp THEN ImageResponses ELSE TextResponses :
        /\ responses' = [responses EXCEPT !.other = Some(response)]
        /\ res' = [res EXCEPT ![p] = provider_response(call[p].op, response)]
    /\ sent' = Some(provider_payload(call[p].op, request, api_key[1]))
    /\ net' = [net EXCEPT !.others = @ + 1]
    /\ pc' = [pc EXCEPT ![p] = "done"]
    /\ UNCHANGED <<booted, disk, mem, call, local, calls, pre, prev>>
    /\ UNCHANGED <<request, wp_settings, index, attempts, wait_duration, result,
                   upload_results, waits, api_key, pipeline>>

InitProviders ==
    \* the settings file when the application starts: the one setup writes, or
    \* an older one that has no key entries
    LET ProviderDocs ==
            {InitialDoc, [k \in StoreKeys |-> IF k = STORE_KEY_PROJECTS THEN to_value(EmptyMap) ELSE JAbsent]}
    IN
    /\ booted = TRUE
    /\ disk \in ProviderDocs
    /\ mem = disk
    /\ pc = [p \in Procs |-> "idle"]
    /\ call = [p \in Procs |-> NoCall]
    /\ local = [p \in Procs |-> NoLocal]
    /\ res = [p \in Procs |-> Pending]
    /\ calls = [p \in Procs |-> <<>>]
    /\ pre = [p \in Procs |-> EmptyDoc]
    /\ prev = NoPrev
    /\ WpIdle
    /\ pipeline = NoPipeline

NextProviders ==
    \/ InvokeProvider
    \/ InvokeSaveKey
    \/ Reload(1)
    \/ ProviderGet(1)
    \/ ProviderRequest(1)
    \/ Set(1)
    \/ Save(1)
    \/ Return(1)

SpecProviders == InitProviders /\ [][NextProviders]_vars

\* ------------------------------------------- claims on the text provider

\* the text key entry of the settings file when the command was invoked
StoredTextKey(p) == pre[p][STORE_KEY_TEXT_API]

\* C23: with an empty image list get_article_with_image_placeholders_llm
\* returns the article HTML it was given, unchanged, and looks up no key and
\* sends no request.
C23_NoImagesPassThrough ==
    \A p \in Procs :
        (call[p].op = PlaceholdersOp /\ pc[p] # "idle" /\ request.images = <<>>)
        => /\ pc[p] = "done"
           /\ res[p].ok
           /\ res[p].str = request.article_html
           /\ calls[p] = <<>>
           /\ net = NoNet
           /\ sent = None
           /\ api_key = None

C23_Witness ==
    \E p \in Procs :
        /\ Done(p, PlaceholdersOp)
        /\ request.images = <<>>
        /\ request.article_html = <<" ", "x", " ">>
        /\ res[p].str = <<" ", "x", " ">>

\* C24: with a non-empty image list the article the text client returns is
\* the result only when it holds each placeholder of the request exactly
\* once; otherwise the command returns an error.
C24_PlaceholderCountChecked ==
    \* text is a sequence of tokens: " " is whitespace, "p1" and "p2" are the
    \* placeholders [INSERT_IMAGE_HERE_1] and [INSERT_IMAGE_HERE_2], "[" and "]"
    \* the brackets of a JSON array of strings, anything else a word
    LET Placeholder(placeholder_index) ==
            CASE placeholder_index = 1 -> "p1"
              [] placeholder_index = 2 -> "p2"
              [] OTHER -> "p"
    IN
    \A p \in Procs :
        (Done(p, PlaceholdersOp) /\ request.images # <<>> /\ res[p].ok)
        => \A i \in 1..Len(request.images) :
              Count(res[p].str, Placeholder(request.images[i].placeholder_index)) = 1

\* C25: a readable 2xx answer whose body is not a chat completion makes
\* each of the three text commands return a parse error, never a success.
C25_ShapeMismatchIsParseError ==
    \A p \in Procs :
        ( /\ pc[p] = "done"
          /\ call[p].op \in TextOps
          /\ responses.other # None
          /\ responses.other[1].t = "resp"
          /\ responses.other[1].status \in 200..299
          /\ responses.other[1].readable
          /\ responses.other[1].body.t # "chat" )
        => ~res[p].ok /\ res[p].err = "Parse"

\* C27: when no text API key is stored each text command returns an error
\* and sends no request to the text provider.
C27_NoKeyNoRequest ==
    \* p runs a text command that needs the key: not the placeholder command
    \* with an empty image list
    LET NeedsTextKey(p) ==
            /\ call[p].op \in TextOps
            /\ pc[p] # "idle"
            /\ call[p].op = PlaceholdersOp => request.images # <<>>
    IN
    \A p \in Procs :
        (NeedsTextKey(p) /\ StoredTextKey(p).t # "string")
        => /\ pc[p] \in {"reload", "get", "done"}
           /\ net = NoNet
           /\ sent = None
           /\ pc[p] = "done" => (~res[p].ok /\ res[p] # Pending)

C27_Witness ==
    \E p \in Procs :
        /\ Done(p, SuggestOp)
        /\ StoredTextKey(p) = JAbsent
        /\ res[p] = Err("KeyNotFound")

\* C29: generate_full_article never panics, whatever text key is stored;
\* with the empty key stored it returns the empty-key error and sends no
\* request.
C29_NoPanicOnShortKey ==
    \A p \in Procs :
        call[p].op = GenerateOp
        => /\ pc[p] # "panicked"
           /\ (pc[p] = "done" /\ IoWorked(p) /\ StoredTextKey(p) = JString(<<>>))
              => res[p] = Err("EmptyKey") /\ net = NoNet

\* ------------------------------------------------- claims on the startup
\* C26: when the settings file does not exist at startup, setup writes a
\* file whose textApiKey and imageApiKey entries are null and whose
\* projects entry is the empty map before any command runs; get_projects
\* on that file returns the empty list.
C26_FreshStoreInitialized ==
    /\ [][(~booted /\ booted' /\ disk = NoFile)
            => /\ disk' = [textApiKey |-> JNull, imageApiKey |-> JNull,
                           projects |-> [t |-> "object", s |-> <<>>, m |-> EmptyMap]]
               /\ mem' = disk']_vars
    /\ [](~booted => \A p \in Procs : pc[p] = "idle")
    /\ [](\A p \in Procs :
            (Done(p, "get_projects") /\ IoWorked(p) /\ pre[p] = InitialDoc)
            => res[p] = OkNames(<<>>))

C26_Witness ==
    \E p \in Procs :
        /\ Done(p, "get_projects")
        /\ pre[p] = InitialDoc
        /\ calls[p] = <<"reload", "get">>
        /\ res[p] = OkNames(<<>>)

\* C30: on the file setup wrote, before any save_api_key, get_api_key for
\* textApiKey or imageApiKey returns Ok(None), not an error.
C30_FreshKeyIsAbsent ==
    \A p \in Procs :
        ( /\ Done(p, "get_api_key")
          /\ call[p].key \in {STORE_KEY_TEXT_API, STORE_KEY_IMAGE_API}
          /\ IoWorked(p)
          /\ pre[p] = InitialDoc )
        => res[p] = OkNone

\* ---------------------------------------------------- publishing pipeline
\* The coordinator of a publish request: it invokes the commands above one
\* after the other and moves from stage to stage as they return.
\*   Draft -> TextGenerated -> ImagesGenerated -> MediaUploaded
\*         -> PlaceholdersResolved -> Published | Failed
Working == {"Draft", "TextGenerated", "ImagesGenerated", "MediaUploaded",
            "PlaceholdersResolved"}

\* the command a stage runs to reach the next one
StageCommand(stage) ==
    CASE stage = "Draft" -> GenerateOp
      [] stage = "TextGenerated" -> ImageOp
      [] stage = "ImagesGenerated" -> UploadOp
      [] stage = "MediaUploaded" -> PlaceholdersOp
      [] stage = "PlaceholdersResolved" -> PublishOp

PipelineProject == <<"a">>

\* the pipeline after the command of its stage has returned r
Advance(pl, r, results) ==
    LET NextStage(stage) ==
            CASE stage = "Draft" -> "TextGenerated"
              [] stage = "TextGenerated" -> "ImagesGenerated"
              [] stage = "ImagesGenerated" -> "MediaUploaded"
              [] stage = "MediaUploaded" -> "PlaceholdersResolved"
              [] stage = "PlaceholdersResolved" -> "Published"
        \* the uploaded media, numbered in order, as the placeholder step takes them
        Uploaded(rs) ==
            LET idx == SelectSeq([i \in 1..Len(rs) |-> i], LAMBDA i : rs[i].success) IN
            [k \in 1..Len(idx) |->
                ImageDetailsForLLM(rs[idx[k]].wordpress_media_id[1],
                                   rs[idx[k]].wordpress_media_url[1], "alt", k)]
    IN
    LET next == [pl EXCEPT !.stage = NextStage(pl.stage),
                           !.completed = Append(@, StageCommand(pl.stage))]
        failed == [pl EXCEPT !.stage = "Failed"]
    IN
    CASE pl.stage = "Draft" ->
           IF r.ok THEN [next EXCEPT !.article = r.str] ELSE failed
      [] pl.stage = "TextGenerated" ->
           [next EXCEPT !.image_urls = IF r.ok THEN r.str ELSE <<>>]
      [] pl.stage = "ImagesGenerated" ->
           IF r.ok THEN [next EXCEPT !.images = Uploaded(results)] ELSE failed
      [] pl.stage = "MediaUploaded" ->
           IF r.ok THEN [next EXCEPT !.article = r.str] ELSE failed
      [] pl.stage = "PlaceholdersResolved" ->
           IF r.ok THEN next ELSE failed

\* a publish request is made
StartPublish ==
    /\ booted
    /\ pipeline = NoPipeline
    /\ \A q \in Procs : pc[q] = "idle"
    /\ pipeline' = [pipeline EXCEPT !.stage = "Draft"]
    /\ UNCHANGED <<booted, disk, mem, pc, call, local, res, calls, pre, prev>>
    /\ UNCHANGED <<request, wp_settings, index, attempts, wait_duration, result,
                   upload_results, responses, waits, net, sent, api_key>>

\* slip: the post is created as soon as the text is there
CommandAt_publish_early(stage) ==
    IF stage = "TextGenerated" THEN {ImageOp, PublishOp} ELSE {StageCommand(stage)}

\* the commands the coordinator may invoke at a stage
CommandAt(stage) == {StageCommand(stage)}

\* the coordinator invokes the command of the stage it is at
PipelineInvoke ==
    \* the requests the coordinator makes of a command
    LET StageRequests(op, pl) ==
            CASE op = GenerateOp -> ProviderRequests(GenerateOp)
              [] op = ImageOp -> ProviderRequests(ImageOp)
              [] op = UploadOp -> {[image_urls |-> pl.image_urls]}
              [] op = PlaceholdersOp ->
                   {InsertPlaceholdersLLMRequest(pl.article, pl.images)}
              [] op = PublishOp ->
                   {PublishRequest([title |-> None], st, None) : st \in {None, Some("draft")}}
    IN
    /\ pipeline.stage \in Working
    /\ \E op \in CommandAt(pipeline.stage) :
       \E rq \in StageRequests(op, pipeline) :
          IF op \in WpOps
          THEN StartWp(Call(op, PipelineProject, NoSettings, "", <<>>), rq)
          ELSE StartProvider(op, rq)
    /\ UNCHANGED pipeline

\* the command returns and the coordinator moves on
PipelineAdvance ==
    /\ pipeline.stage \in Working
    /\ Returns(1)
    /\ pipeline' = Advance(pipeline, res[1], upload_results)

InitPipeline ==
    \* the settings file of a publish request: project "a", its WordPress
    \* settings complete or without URL, the image key stored, the text key
    \* stored or not
    LET PipelineDocs ==
            {[k \in StoreKeys |->
                CASE k = STORE_KEY_PROJECTS -> to_value([n \in {PipelineProject} |-> st])
                  [] k = STORE_KEY_TEXT_API -> tk
                  [] OTHER -> JString(<<"s", "k", "-", "a", "a", "a", "a", "a", "a", "a">>)] :
                st \in {x \in WpSettingsInputs : x.wordpress_user = <<"w">> /\ x.wordpress_pass = <<"p">>},
                tk \in {JNull, JString(<<"s", "k", "-", "a", "a", "a", "a", "a", "a", "a">>)}}
    IN
    /\ booted = TRUE
    /\ disk \in PipelineDocs
    /\ mem = disk
    /\ pc = [p \in Procs |-> "idle"]
    /\ call = [p \in Procs |-> NoCall]
    /\ local = [p \in Procs |-> NoLocal]
    /\ res = [p \in Procs |-> Pending]
    /\ calls = [p \in Procs |-> <<>>]
    /\ pre = [p \in Procs |-> EmptyDoc]
    /\ prev = NoPrev
    /\ WpIdle
    /\ pipeline = NoPipeline

NextPipeline ==
    \/ StartPublish
    \/ PipelineInvoke
    \/ PipelineAdvance
    \/ Reload(1)
    \/ ProviderGet(1)
    \/ ProviderRequest(1)
    \/ WpGet(1)
    \/ Download(1)
    \/ Upload(1)
    \/ Sleep(1)
    \/ Push(1)
    \/ Request(1)

SpecPipeline == InitPipeline /\ [][NextPipeline]_vars

InvokeReaders ==
    \* process 1 runs the mutating registry commands and process 2 only
    \* commands that read: no two mutating commands are ever in flight at once
    LET Writes ==
            {Call("create_project", <<"a">>, NoSettings, "", <<>>),
             Call("delete_project", <<"a">>, NoSettings, "", <<>>)}
            \cup {Call("save_project_settings", <<"a">>, st, "", <<>>) : st \in SettingsInputs}
        Reads ==
            {Call("get_projects", <<>>, NoSettings, "", <<>>),
             Call("get_project_settings", <<"a">>, NoSettings, "", <<>>),
             Call("get_api_key", <<>>, NoSettings, STORE_KEY_TEXT_API, <<>>)}
    IN  /\ \/ \E c \in Writes : Invoke(1, c)
           \/ \E c \in Reads : Invoke(2, c)
        /\ UNCHANGED wpvars

NextReaders == Setup \/ InvokeReaders \/ Step

SpecReaders == Init /\ [][NextReaders]_vars

\* C31: a mutating registry command that returns success, with no other
\* mutating command in flight, has its update in the settings file when it
\* returns: the created project is in the file, the replaced record is the
\* one passed, the deleted project is gone, whatever the read-only commands
\* running beside it do.
C31_ReadersCannotLoseUpdate ==
    (pc[1] = "done" /\ res[1] = Ok) =>
        /\ WellFormed(disk)
        /\ call[1].op = "create_project" => call[1].name \in Existing(disk)
        /\ call[1].op = "save_project_settings" =>
              /\ call[1].name \in Existing(disk)
              /\ disk[STORE_KEY_PROJECTS].m[call[1].name] = call[1].settings
        /\ call[1].op = "delete_project" => call[1].name \notin Existing(disk)

\* ------------------------------------------------- the registry as a map

\* The registry commands against a map from names to records.  The map
\* before a command is the projects map the commands before it left in the
\* file.  create inserts the default record when the name is absent (after
\* rejecting a blank name, when rejects_blank), replace overwrites when the
\* name is present, delete removes when present, get and list read.  A
\* command whose reload and save worked returns what the map returns and
\* leaves the map's content in the file.
RegistryRefines(rejects_blank) ==
    LET Default(name) ==
            [wordpress_url |-> <<>>, wordpress_user |-> <<>>,
             wordpress_pass |-> <<>>, tool_name |-> name,
             article_goal_prompt |-> <<>>, example_url |-> <<>>,
             sections |-> <<>>, text_generation_model |-> "gpt-4o",
             target_word_count |-> 1000]
        Without(m, name) == [n \in DOMAIN m \ {name} |-> m[n]]
        Abstract(c, m) ==
            CASE c.op = "create_project" ->
                   IF rejects_blank /\ \A i \in 1..Len(c.name) : c.name[i] = " "
                   THEN [res |-> Err("InvalidName"), map |-> m]
                   ELSE IF c.name \in DOMAIN m
                   THEN [res |-> Err("AlreadyExists"), map |-> m]
                   ELSE [res |-> Ok, map |-> (c.name :> Default(c.name)) @@ m]
              [] c.op = "save_project_settings" ->
                   IF c.name \in DOMAIN m
                   THEN [res |-> Ok, map |-> (c.name :> c.settings) @@ m]
                   ELSE [res |-> Err("NotFound"), map |-> m]
              [] c.op = "delete_project" ->
                   IF c.name \in DOMAIN m
                   THEN [res |-> Ok, map |-> Without(m, c.name)]
                   ELSE [res |-> Err("NotFound"), map |-> m]
              [] c.op = "get_project_settings" ->
                   IF c.name \in DOMAIN m
                   THEN [res |-> OkSomeRec(m[c.name]), map |-> m]
                   ELSE [res |-> OkNone, map |-> m]
              [] c.op = "get_projects" -> [res |-> Ok, map |-> m]
        \* the list of the map's names, each once, in ascending order
        Lists(names, m) ==
            /\ Len(names) = Cardinality(DOMAIN m)
            /\ {names[i] : i \in 1..Len(names)} = DOMAIN m
            /\ \A i, j \in 1..Len(names) : i < j => StrLess(names[i], names[j])
    IN
    \A p \in Procs :
        ( /\ pc[p] = "done"
          /\ call[p].op \in RegistryOps
          /\ WellFormed(pre[p])
          /\ IoWorked(p) )
        => LET m == pre[p][STORE_KEY_PROJECTS].m
               a == Abstract(call[p], m)
           IN  /\ WellFormed(disk)
               /\ disk[STORE_KEY_PROJECTS].m = a.map
               /\ IF call[p].op = "get_projects"
                  THEN /\ res[p] = OkNames(res[p].names)
                       /\ Lists(res[p].names, m)
                  ELSE res[p] = a.res

\* C32 as stated: every result of non-overlapping create_project,
\* save_project_settings, delete_project, get_project_settings and
\* get_projects calls, and the projects map in the file, equal those of a
\* map in which create inserts the default record whenever the name is
\* absent, replace overwrites if present and delete removes if present.
C32_RefinesMapAsStated == RegistryRefines(FALSE)

\* C32: the same, against a map whose create first rejects an empty or
\* whitespace-only name with InvalidName and changes nothing, for commands
\* whose reload and save succeed.
C32_RefinesMap == RegistryRefines(TRUE)

\* a replace, then a read of the same project that returns the new record
C32_Witness ==
    /\ Done(1, "get_project_settings")
    /\ Follows(1, "save_project_settings")
    /\ res[1] = OkSomeRec(prev.call.settings)
    /\ Cardinality(Existing(disk)) = 2

\* C33: a create_project, save_project_settings or delete_project on a name
\* that returns success leaves the record of every other project and the
\* two API keys in the file as they were when it was invoked; a registry
\* command that returns InvalidName, AlreadyExists, NotFound or the
\* corrupt-store error leaves the whole file as it was.
C33_FrameOfRegistryWrites ==
    \A p \in Procs :
        /\ ( /\ pc[p] = "done"
             /\ call[p].op \in {"create_project", "save_project_settings", "delete_project"}
             /\ res[p] = Ok )
           => /\ WellFormed(pre[p]) /\ WellFormed(disk)
              /\ Existing(disk) \ {call[p].name} = Existing(pre[p]) \ {call[p].name}
              /\ \A n \in Existing(pre[p]) \ {call[p].name} :
                    disk[STORE_KEY_PROJECTS].m[n] = pre[p][STORE_KEY_PROJECTS].m[n]
              /\ disk[STORE_KEY_TEXT_API] = pre[p][STORE_KEY_TEXT_API]
              /\ disk[STORE_KEY_IMAGE_API] = pre[p][STORE_KEY_IMAGE_API]
        /\ ( /\ pc[p] = "done"
             /\ call[p].op \in RegistryOps
             /\ res[p].err \in {"InvalidName", "AlreadyExists", "NotFound", "Deserialize"} )
           => disk = pre[p]

\* a project is deleted while another project and a text key are stored
C33_Witness ==
    /\ Done(1, "delete_project")
    /\ res[1] = Ok
    /\ Cardinality(Existing(pre[1])) = 2
    /\ pre[1][STORE_KEY_TEXT_API].t = "string"
    /\ Cardinality(Existing(disk)) = 1

\* C34: a save_api_key that returns success, whatever key name it was given,
\* leaves the projects map in the file as it was when it was invoked.
C34_SaveKeyKeepsProjects ==
    \A p \in Procs :
        (Done(p, "save_api_key") /\ res[p] = Ok)
        => disk[STORE_KEY_PROJECTS] = pre[p][STORE_KEY_PROJECTS]

\* C35: every ImageUploadResult the upload command holds, the one
\* process_single_image_upload has just returned and those already pushed,
\* is well formed: success is true exactly when the media id and the media
\* URL are both present and the error is absent, and false exactly when the
\* error is present and the media id and URL are both absent.
C35_ResultsWellFormed ==
    LET WellFormedResult(r) ==
            /\ r.success <=> ( /\ r.wordpress_media_id # None
                               /\ r.wordpress_media_url # None
                               /\ r.error = None )
            /\ ~r.success <=> ( /\ r.error # None
                                /\ r.wordpress_media_id = None
                                /\ r.wordpress_media_url = None )
    IN  /\ \A i \in 1..Len(upload_results) : WellFormedResult(upload_results[i])
        /\ (\E p \in Procs : pc[p] = "push") => WellFormedResult(result)

\* the command returns a list with an uploaded image and a failed one
C35_Witness ==
    /\ Done(1, UploadOp)
    /\ \E i, j \in 1..Len(upload_results) :
          upload_results[i].success /\ ~upload_results[j].success

\* ------------------------------------------------- the upload command alone

\* upload_images_to_wordpress is invoked on project "a" with a list of at
\* most MaxUrls URLs
InvokeUpload ==
    \E n \in 0..MaxUrls :
        /\ StartWp(Call(UploadOp, <<"a">>, NoSettings, "", <<>>),
                   [image_urls |-> [i \in 1..n |-> "u1"]])
        /\ UNCHANGED pipeline

NextUpload ==
    \/ InvokeUpload
    \/ Reload(1)
    \/ WpGet(1)
    \/ Download(1)
    \/ Upload(1)
    \/ Sleep(1)
    \/ Push(1)
    \/ Return(1)

\* Every request the command sends comes back, every sleep elapses and the
\* command's own steps are taken: a step of the command that stays possible
\* is eventually made.  Nothing obliges a caller to invoke the command or to
\* collect its result.
SpecUploadFair ==
    /\ InitWp
    /\ [][NextUpload]_vars
    /\ WF_vars(Reload(1) \/ WpGet(1) \/ Download(1) \/ Upload(1) \/ Sleep(1) \/ Push(1))

\* C36: when every request returns and every wait elapses,
\* upload_images_to_wordpress on a configured project with N URLs, once in
\* its loop, eventually returns the list of N results, and at no point has
\* it sent more than N download requests or 4N upload requests or slept
\* more than 3N times.
C36_UploadTerminatesInBudget ==
    /\ [](call[1].op = UploadOp =>
            /\ net.downloads <= Len(request.image_urls)
            /\ net.uploads <= 4 * Len(request.image_urls)
            /\ net.sleeps <= 3 * Len(request.image_urls))
    /\ InLoop(1) ~> ( /\ Done(1, UploadOp)
                      /\ res[1] = Ok
                      /\ Len(upload_results) = Len(request.image_urls) )

\* the command has returned after spending the whole budget: every image was
\* downloaded and answered 429 four times
C36_Witness ==
    /\ Done(1, UploadOp)
    /\ Len(request.image_urls) = MaxUrls
    /\ net.downloads = MaxUrls
    /\ net.uploads = 4 * MaxUrls
    /\ net.sleeps = 3 * MaxUrls

====
